---- MODULE Spec2Model ----
(***************************************************************************)
(* Routing-decision and congestion-monitoring engine of the adaptive       *)
(* routing repository: FlowletRouter, CongestionAwareRouter,               *)
(* AdaptiveRoutingController (routing/adaptive_routing.py) and             *)
(* NetworkMonitor (routing/monitor.py).                                    *)
(*                                                                         *)
(* Time is counted in ticks of 25 ms, so the default flowlet_timeout of    *)
(* 0.05 s is 2 ticks.                                                      *)
(***************************************************************************)
EXTENDS Integers, Sequences, FiniteSets, TLC

\* ------------------------------------------------------------------ bounds
MaxTime == 2
MaxLoad == 1
MaxStarts == 2
MaxTicks == 3
MaxUtil == 2
MaxNow == 3
MaxFlows == 3
MaxRamp == 101
MaxSpines == 2
MaxLeaves == 2
MaxHostsPerLeaf == 2

\* ------------------------------------------------------- program constants
FlowletTimeout == 2
SampleInterval == 1

Keys == {"k1", "k2"}
Paths == {1, 2}
Threads == {"t1", "t2"}
Times == 0..MaxTime
Deltas == {-1, 1}

NoThread == "none"
NoKey == "nokey"
NoPath == 0
NoTime == -1

Range(s) == {s[i] : i \in DOMAIN s}

Injective(s) == \A i, j \in DOMAIN s : i # j => s[i] # s[j]

\* The values of the available_paths argument: lists of distinct path ids,
\* in every order, the empty list included.
PathLists ==
    {s \in UNION {[1..n -> Paths] : n \in 0..Cardinality(Paths)} : Injective(s)}

VARIABLES
    flowlet_table,   \* FlowletRouter.flowlet_table: flow_key -> <<last_time, path_id>>
    path_loads,      \* FlowletRouter.path_loads: path_id -> load (a defaultdict)
    lock,            \* FlowletRouter.lock: the thread holding it, or NoThread
    pc,              \* position of each caller thread
    frame,           \* arguments, locals and return value of each thread's call
    lastCall         \* history: per flow key, the last call that returned a path

flowletVars == <<flowlet_table, path_loads, lock, pc, frame, lastCall>>

VARIABLES
    twin,            \* two FlowletRouter instances: [table, loads] each
    twinOut          \* history: the answers of the last comparable pair of calls

twinVars == <<twin, twinOut>>

VARIABLES
    monitoring,      \* NetworkMonitor.monitoring
    monitor_thread,  \* NetworkMonitor.monitor_thread: a sampler id, or NoSampler
    samples,         \* NetworkMonitor.samples
    sampler_pc,      \* position of each _monitor_loop thread ever created
    ticks,           \* loop iterations entered by the samplers so far
    clock,           \* datetime.now(), in sample intervals
    caller,          \* position of the thread that calls start/stop/get_statistics
    stats,           \* the stats dict get_statistics is building or has returned
    stops,           \* history: stop() calls completed since the last start()
    stopSamples      \* history: self.samples when the last stop() returned

monVars == <<monitoring, monitor_thread, samples, sampler_pc, ticks, clock,
             caller, stats, stops, stopSamples>>

\* ------------------------------------------------------------ FlowletRouter

\* self.path_loads.get(p, 0)
PathLoadsGet(loads, p) == IF p \in DOMAIN loads THEN loads[p] ELSE 0

\* Python's min(iterable, key=...): the first element, in iteration order,
\* whose key is minimal.
MinIndex(s, loads) ==
    CHOOSE i \in DOMAIN s :
        /\ \A j \in DOMAIN s : PathLoadsGet(loads, s[i]) <= PathLoadsGet(loads, s[j])
        /\ \A j \in DOMAIN s : j < i => PathLoadsGet(loads, s[j]) > PathLoadsGet(loads, s[i])

\* A selection that keeps the last of several equally loaded paths.
SelectedPathLastOfEquals(flow_key, available_paths, current_time, table, loads) ==
    available_paths[CHOOSE i \in DOMAIN available_paths :
        /\ \A j \in DOMAIN available_paths :
              PathLoadsGet(loads, available_paths[i]) <= PathLoadsGet(loads, available_paths[j])
        /\ \A j \in DOMAIN available_paths :
              j > i => PathLoadsGet(loads, available_paths[j]) > PathLoadsGet(loads, available_paths[i])]

\* A selection that keeps the key's expired path when it is listed and no
\* listed path is less loaded.
SelectedPathPreferOld(flow_key, available_paths, current_time, table, loads) ==
    IF /\ flow_key \in DOMAIN table
       /\ \E i \in DOMAIN available_paths :
            /\ available_paths[i] = table[flow_key][2]
            /\ \A j \in DOMAIN available_paths :
                 PathLoadsGet(loads, available_paths[i]) <= PathLoadsGet(loads, available_paths[j])
    THEN table[flow_key][2]
    ELSE available_paths[MinIndex(available_paths, loads)]

\* A selection over every path the router knows, not over the listed ones.
SelectedPathOfAllPaths(flow_key, available_paths, current_time, table, loads) ==
    CHOOSE p \in Paths : \A q \in Paths : PathLoadsGet(loads, p) <= PathLoadsGet(loads, q)

\* The path a new flowlet gets (lines 54-55): the least loaded of the listed
\* paths, the first listed one among equals.  The call raises ValueError on
\* an empty list, so this is used on non-empty lists only.
SelectedPath(flow_key, available_paths, current_time, table, loads) ==
    available_paths[MinIndex(available_paths, loads)]

\* A window that is one tick too short.
WithinFlowletShort(current_time, last_time) ==
    current_time - last_time < FlowletTimeout - 1

\* Line 49: the call still belongs to the flowlet of the stored entry.
WithinFlowlet(current_time, last_time) ==
    current_time - last_time < FlowletTimeout

\* Entering without taking the lock.
CanAcquireUnlocked(t) == TRUE

\* "with self.lock": a thread enters only when no thread holds the lock.
CanAcquire(t) == lock = NoThread

\* dict assignment d[k] = v
Put(d, k, v) == [x \in DOMAIN d \cup {k} |-> IF x = k THEN v ELSE d[x]]

EmptyDict == [x \in {} |-> 0]

\* The field listed is history: whether the returned path was in the
\* available_paths of the call that returned it.
IdleFrame ==
    [flow_key |-> NoKey, available_paths |-> <<>>, current_time |-> NoTime,
     hit |-> FALSE, last_time |-> NoTime, last_path |-> NoPath,
     path_id |-> NoPath, load_delta |-> 0, old |-> 0,
     ret |-> NoPath, kind |-> "none", listed |-> FALSE]

NoCall == [time |-> NoTime, path |-> NoPath]

\* How many of the listed paths carry the minimal load.
MinimalPaths(available_paths, loads) ==
    {i \in DOMAIN available_paths :
        \A j \in DOMAIN available_paths :
            PathLoadsGet(loads, available_paths[i]) <= PathLoadsGet(loads, available_paths[j])}

FlowletInit ==
    /\ flowlet_table = EmptyDict
    /\ path_loads = EmptyDict
    /\ lock = NoThread
    /\ pc = [t \in Threads |-> "idle"]
    /\ frame = [t \in Threads |-> IdleFrame]
    /\ lastCall = [k \in Keys |-> NoCall]

\* get_flowlet_path, lines 44-49: take the lock, look the key up and test the
\* flowlet timeout.
Enter(t) ==
    /\ pc[t] = "idle"
    /\ CanAcquire(t)
    /\ \E k \in Keys, ps \in PathLists, now \in Times :
         LET known == k \in DOMAIN flowlet_table
             lt == IF known THEN flowlet_table[k][1] ELSE NoTime
             lp == IF known THEN flowlet_table[k][2] ELSE NoPath
         IN frame' = [frame EXCEPT ![t] =
                [IdleFrame EXCEPT !.flow_key = k, !.available_paths = ps,
                                  !.current_time = now,
                                  !.hit = known /\ WithinFlowlet(now, lt),
                                  !.last_time = lt, !.last_path = lp]]
    /\ lock' = t
    /\ pc' = [pc EXCEPT ![t] = "cs"]
    /\ UNCHANGED <<flowlet_table, path_loads, lastCall>>

\* Lines 50-51: same flowlet, refresh last_time and return the stored path;
\* leaving the with-block releases the lock.
StickyReturn(t) ==
    /\ pc[t] = "cs"
    /\ frame[t].hit
    /\ LET f == frame[t] IN
         /\ flowlet_table' = Put(flowlet_table, f.flow_key, <<f.current_time, f.last_path>>)
         /\ frame' = [frame EXCEPT ![t] =
                [IdleFrame EXCEPT !.flow_key = f.flow_key, !.ret = f.last_path,
                                  !.listed = f.last_path \in Range(f.available_paths),
                                  !.kind = IF f.last_time < f.current_time
                                           THEN "sticky_later" ELSE "sticky"]]
         /\ lastCall' = [lastCall EXCEPT ![f.flow_key] =
                [time |-> f.current_time, path |-> f.last_path]]
    /\ lock' = NoThread
    /\ pc' = [pc EXCEPT ![t] = "returned"]
    /\ UNCHANGED path_loads

\* Lines 54-58: new flowlet, pick the least loaded listed path and record it.
SelectReturn(t) ==
    /\ pc[t] = "cs"
    /\ ~frame[t].hit
    /\ frame[t].available_paths # <<>>
    /\ LET f == frame[t]
           selected_path == SelectedPath(f.flow_key, f.available_paths, f.current_time,
                                         flowlet_table, path_loads)
       IN
         /\ flowlet_table' = Put(flowlet_table, f.flow_key, <<f.current_time, selected_path>>)
         /\ frame' = [frame EXCEPT ![t] =
                [IdleFrame EXCEPT !.flow_key = f.flow_key, !.ret = selected_path,
                                  !.listed = selected_path \in Range(f.available_paths),
                                  !.kind = IF Cardinality(MinimalPaths(f.available_paths, path_loads)) > 1
                                           THEN "new_tie" ELSE "new"]]
         /\ lastCall' = [lastCall EXCEPT ![f.flow_key] =
                [time |-> f.current_time, path |-> selected_path]]
    /\ lock' = NoThread
    /\ pc' = [pc EXCEPT ![t] = "returned"]
    /\ UNCHANGED path_loads

\* An exit by exception that does not give the lock back.
SelectRaiseKeepLock(t) ==
    /\ pc[t] = "cs"
    /\ ~frame[t].hit
    /\ frame[t].available_paths = <<>>
    /\ frame' = [frame EXCEPT ![t] = [IdleFrame EXCEPT !.flow_key = frame[t].flow_key]]
    /\ pc' = [pc EXCEPT ![t] = "raised"]
    /\ UNCHANGED <<flowlet_table, path_loads, lastCall, lock>>

\* Line 54 on an empty list: min() raises ValueError, the with-block releases
\* the lock and nothing was written.
SelectRaise(t) ==
    /\ pc[t] = "cs"
    /\ ~frame[t].hit
    /\ frame[t].available_paths = <<>>
    /\ frame' = [frame EXCEPT ![t] = [IdleFrame EXCEPT !.flow_key = frame[t].flow_key]]
    /\ lock' = NoThread
    /\ pc' = [pc EXCEPT ![t] = "raised"]
    /\ UNCHANGED <<flowlet_table, path_loads, lastCall>>

\* The caller has the result (or the exception) and is free for another call.
Return(t) ==
    /\ pc[t] \in {"returned", "raised"}
    /\ pc' = [pc EXCEPT ![t] = "idle"]
    /\ frame' = [frame EXCEPT ![t] = IdleFrame]
    /\ UNCHANGED <<flowlet_table, path_loads, lock, lastCall>>

\* update_path_load, lines 62-63: take the lock and read path_loads[path_id]
\* (a defaultdict: a missing path reads as 0).
UpdateEnter(t) ==
    /\ pc[t] = "idle"
    /\ CanAcquire(t)
    /\ \E p \in Paths, d \in Deltas :
         /\ PathLoadsGet(path_loads, p) + d \in 0..MaxLoad
         /\ frame' = [frame EXCEPT ![t] =
                [IdleFrame EXCEPT !.path_id = p, !.load_delta = d,
                                  !.old = PathLoadsGet(path_loads, p)]]
    /\ lock' = t
    /\ pc' = [pc EXCEPT ![t] = "u_cs"]
    /\ UNCHANGED <<flowlet_table, path_loads, lastCall>>

\* update_path_load that stores the delta in place of the sum.
UpdateWriteAssign(t) ==
    /\ pc[t] = "u_cs"
    /\ path_loads' = Put(path_loads, frame[t].path_id, frame[t].load_delta)
    /\ frame' = [frame EXCEPT ![t] = IdleFrame]
    /\ lock' = NoThread
    /\ pc' = [pc EXCEPT ![t] = "idle"]
    /\ UNCHANGED <<flowlet_table, lastCall>>

\* Line 63: store the sum, release the lock and return.
UpdateWrite(t) ==
    /\ pc[t] = "u_cs"
    /\ path_loads' = Put(path_loads, frame[t].path_id, frame[t].old + frame[t].load_delta)
    /\ frame' = [frame EXCEPT ![t] = IdleFrame]
    /\ lock' = NoThread
    /\ pc' = [pc EXCEPT ![t] = "idle"]
    /\ UNCHANGED <<flowlet_table, lastCall>>

\* ------------------------------------------- two classifiers side by side

\* get_flowlet_path run from line 44 to its return without interruption:
\* the table afterwards, the returned path and the branch taken.
GetFlowletPath(table, loads, flow_key, available_paths, current_time) ==
    IF flow_key \in DOMAIN table /\ WithinFlowlet(current_time, table[flow_key][1])
    THEN [table |-> Put(table, flow_key, <<current_time, table[flow_key][2]>>),
          ret |-> table[flow_key][2], kind |-> "sticky"]
    ELSE IF available_paths = <<>>
    THEN [table |-> table, ret |-> NoPath, kind |-> "raised"]
    ELSE LET selected_path == SelectedPath(flow_key, available_paths, current_time,
                                           table, loads)
         IN [table |-> Put(table, flow_key, <<current_time, selected_path>>),
             ret |-> selected_path, kind |-> "new"]

\* update_path_load run without interruption.
UpdatePathLoad(loads, path_id, load_delta) ==
    Put(loads, path_id, PathLoadsGet(loads, path_id) + load_delta)

Twins == {1, 2}
TwinTimes == {0, FlowletTimeout}

NoTwinOut == [ret |-> <<NoPath, NoPath>>, varied |-> FALSE]

TwinInit ==
    /\ twin = [r \in Twins |-> [table |-> EmptyDict, loads |-> EmptyDict]]
    /\ twinOut = NoTwinOut

SameLoads(l1, l2) == \A p \in Paths : PathLoadsGet(l1, p) = PathLoadsGet(l2, p)

\* Both classifiers are asked for a path with the same available_paths, each
\* for a key and a timestamp of its own (the first instance serves one flow).  twinOut keeps the two answers when
\* both started a new flowlet from equal path loads.
TwinLookup ==
    \E ps \in PathLists, k1 \in {"k1"}, k2 \in Keys, n1 \in TwinTimes, n2 \in TwinTimes :
        LET a == GetFlowletPath(twin[1].table, twin[1].loads, k1, ps, n1)
            b == GetFlowletPath(twin[2].table, twin[2].loads, k2, ps, n2)
        IN /\ twin' = [twin EXCEPT ![1].table = a.table, ![2].table = b.table]
           /\ twinOut' = IF /\ a.kind = "new" /\ b.kind = "new"
                            /\ SameLoads(twin[1].loads, twin[2].loads)
                         THEN [ret |-> <<a.ret, b.ret>>,
                               varied |-> /\ k1 # k2 /\ n1 # n2
                                          /\ twin[1].table # twin[2].table]
                         ELSE NoTwinOut

TwinUpdate(r) ==
    \E p \in Paths, d \in Deltas :
        /\ PathLoadsGet(twin[r].loads, p) + d \in 0..MaxLoad
        /\ twin' = [twin EXCEPT ![r].loads = UpdatePathLoad(twin[r].loads, p, d)]
        /\ UNCHANGED twinOut

\* ----------------------------------------------------------- NetworkMonitor

Switches == {"s1"}
PortNums == {"1"}
TxBytes == {0, 125000}
Drops == {0, 1}
NoSampler == 0
SamplerIds == 1..MaxStarts

LinkCapacityBps == 1000 * 1000 * 1000

\* One entry of _parse_port_stats (lines 129-136); the packet and rx byte
\* counters are stored too but no statistic reads them.
PortStatsValues ==
    [tx_bytes : TxBytes, rx_drops : Drops, tx_drops : Drops]

\* What _parse_port_stats returns for one switch: the ports whose line
\* parsed, each with its counters.
PortDicts == UNION {[D -> PortStatsValues] : D \in SUBSET PortNums}

\* _get_switch_stats: 'flows' and 'queues' are stored next to 'ports' and
\* read by no statistic.
SwitchStats == [ports : PortDicts]

\* What one switch answers in the sampled runs: no parsable port line, a port
\* that has sent nothing, or a port that has sent 125000 bytes and dropped a
\* received packet.
SampledSwitchStats ==
    {st \in SwitchStats :
        \A port \in DOMAIN st.ports :
            st.ports[port] \in {[tx_bytes |-> 0, rx_drops |-> 0, tx_drops |-> 0],
                                [tx_bytes |-> 125000, rx_drops |-> 1, tx_drops |-> 0]}}

\* _collect_sample: one entry for every switch of the network.
CollectSample(now, readings) == [timestamp |-> now, switches |-> readings]

\* self.samples.append(sample)
SamplesAppend(seq, sample) == Append(seq, sample)

RECURSIVE SumSeq(_)
SumSeq(q) ==
    IF q = <<>> THEN 0
    ELSE IF Len(q) = 1 THEN q[1]
    ELSE LET h == Len(q) \div 2
         IN SumSeq(SubSeq(q, 1, h)) + SumSeq(SubSeq(q, h + 1, Len(q)))

MaxSeq(q) == CHOOSE x \in Range(q) : \A y \in Range(q) : y <= x
MinSeq(q) == CHOOSE x \in Range(q) : \A y \in Range(q) : x <= y

\* Line 203, in millionths of a percent so that the value is an integer:
\* (bits_delta / time_delta) / link_capacity_bps * 100.
UtilPct(bytes_delta) ==
    ((bytes_delta * 8) * 100) \div (SampleInterval * (LinkCapacityBps \div 1000000))

\* The values of a link in reverse sample order.
RECURSIVE LinkUtilsReversed(_, _, _, _)
LinkUtilsReversed(ss, sw, port, i) ==
    IF i > Len(ss) THEN <<>>
    ELSE LET prev == ss[i - 1].switches
             curr == ss[i].switches
         IN LinkUtilsReversed(ss, sw, port, i + 1)
            \o (IF /\ sw \in DOMAIN curr /\ sw \in DOMAIN prev
                   /\ port \in DOMAIN curr[sw].ports
                   /\ port \in DOMAIN prev[sw].ports
                THEN <<UtilPct(curr[sw].ports[port].tx_bytes - prev[sw].ports[port].tx_bytes)>>
                ELSE <<>>)

\* Lines 179-208 for one link: the utilization of every pair of consecutive
\* samples that both hold the switch and the port, in sample order.
RECURSIVE LinkUtils(_, _, _, _)
LinkUtils(ss, sw, port, i) ==
    IF i > Len(ss) THEN <<>>
    ELSE LET prev == ss[i - 1].switches
             curr == ss[i].switches
         IN (IF /\ sw \in DOMAIN curr /\ sw \in DOMAIN prev
                /\ port \in DOMAIN curr[sw].ports
                /\ port \in DOMAIN prev[sw].ports
             THEN <<UtilPct(curr[sw].ports[port].tx_bytes - prev[sw].ports[port].tx_bytes)>>
             ELSE <<>>)
            \o LinkUtils(ss, sw, port, i + 1)

\* The (switch, port) pairs that occur in the samples of ss.
SampleLinks(ss) ==
    UNION {UNION {{<<sw, port>> : port \in DOMAIN ss[i].switches[sw].ports} :
                     sw \in DOMAIN ss[i].switches} : i \in 1..Len(ss)}

\* compute_link_utilization: link id -> list of utilizations; a link id
\* "switch:port" is the pair <<switch, port>>.
ComputeLinkUtilization(ss) ==
    IF Len(ss) < 2 THEN EmptyDict
    ELSE LET links == {l \in SampleLinks(ss) : LinkUtils(ss, l[1], l[2], 2) # <<>>}
         IN [l \in links |-> LinkUtils(ss, l[1], l[2], 2)]

\* Lines 228-231.
Duration(ss) ==
    IF Len(ss) >= 2 THEN ss[Len(ss)].timestamp - ss[1].timestamp ELSE 0

\* Lines 234-242; the mean sum/len is kept as the pair <<sum, len>>.
LinkUtilizationStats(ss) ==
    LET link_util == ComputeLinkUtilization(ss)
    IN [l \in DOMAIN link_util |->
           [mean |-> <<SumSeq(link_util[l]), Len(link_util[l])>>,
            max |-> MaxSeq(link_util[l]),
            min |-> MinSeq(link_util[l]),
            samples |-> Len(link_util[l])]]

\* The drops of the first sample in place of the last.
PacketDropsFirstSample(ss) ==
    IF ss = <<>> THEN EmptyDict
    ELSE LET first_sample == ss[1]
             total(l) == first_sample.switches[l[1]].ports[l[2]].rx_drops
                         + first_sample.switches[l[1]].ports[l[2]].tx_drops
             links == {l \in SampleLinks(<<first_sample>>) : total(l) > 0}
         IN [l \in links |-> total(l)]

\* Lines 245-252: drops of the last sample, links without drops left out.
PacketDrops(ss) ==
    IF ss = <<>> THEN EmptyDict
    ELSE LET last_sample == ss[Len(ss)]
             total(l) == last_sample.switches[l[1]].ports[l[2]].rx_drops
                         + last_sample.switches[l[1]].ports[l[2]].tx_drops
             links == {l \in SampleLinks(<<last_sample>>) : total(l) > 0}
         IN [l \in links |-> total(l)]

NoStats ==
    [total_samples |-> 0, duration |-> 0, link_utilization |-> EmptyDict,
     packet_drops |-> EmptyDict]

\* get_statistics over one value of self.samples.
GetStatistics(ss) ==
    [total_samples |-> Len(ss), duration |-> Duration(ss),
     link_utilization |-> LinkUtilizationStats(ss),
     packet_drops |-> PacketDrops(ss)]

Alive(i) == sampler_pc[i] \in {"check", "collect"}

MonInit ==
    /\ monitoring = FALSE
    /\ monitor_thread = NoSampler
    /\ samples = <<>>
    /\ sampler_pc = [i \in SamplerIds |-> "unborn"]
    /\ ticks = 0
    /\ clock = 0
    /\ caller = "idle"
    /\ stats = NoStats
    /\ stops = 0
    /\ stopSamples = <<>>

\* start(), lines 44-48: set the flag, drop the old samples, create and start
\* a new sampler thread.  Nothing looks at whether a sampler already runs.
Start ==
    /\ caller = "idle"
    /\ \E i \in SamplerIds :
         /\ sampler_pc[i] = "unborn"
         /\ \A j \in SamplerIds : j < i => sampler_pc[j] # "unborn"
         /\ sampler_pc' = [sampler_pc EXCEPT ![i] = "check"]
         /\ monitor_thread' = i
    /\ monitoring' = TRUE
    /\ samples' = <<>>
    /\ stops' = 0
    /\ stopSamples' = <<>>
    /\ UNCHANGED <<ticks, clock, caller, stats>>

\* A stop() that forgets to clear the flag.
StopBeginKeepFlag ==
    /\ caller = "idle"
    /\ caller' = "joining"
    /\ UNCHANGED <<monitoring, monitor_thread, samples, sampler_pc, ticks, clock, stats,
                   stops, stopSamples>>

\* stop(), line 53: clear the flag.
StopBegin ==
    /\ caller = "idle"
    /\ monitoring' = FALSE
    /\ caller' = "joining"
    /\ UNCHANGED <<monitor_thread, samples, sampler_pc, ticks, clock, stats, stops, stopSamples>>

\* Lines 54-55: join() returns once the thread in monitor_thread has ended;
\* without a thread there is nothing to wait for.
JoinReady ==
    IF monitor_thread = NoSampler THEN TRUE ELSE sampler_pc[monitor_thread] = "dead"

\* stop(), lines 54-56: wait for monitor_thread and return.
StopJoin ==
    /\ caller = "joining"
    /\ JoinReady
    /\ caller' = "idle"
    /\ stops' = IF stops < 2 THEN stops + 1 ELSE stops
    /\ stopSamples' = samples
    /\ UNCHANGED <<monitoring, monitor_thread, samples, sampler_pc, ticks, clock, stats>>

\* _monitor_loop, line 60: the test of the while loop.
SamplerCheck(i) ==
    /\ sampler_pc[i] = "check"
    /\ IF monitoring
       THEN /\ ticks < MaxTicks
            /\ ticks' = ticks + 1
            /\ sampler_pc' = [sampler_pc EXCEPT ![i] = "collect"]
       ELSE /\ sampler_pc' = [sampler_pc EXCEPT ![i] = "dead"]
            /\ UNCHANGED ticks
    /\ UNCHANGED <<monitoring, monitor_thread, samples, clock, caller, stats, stops, stopSamples>>

\* _monitor_loop, lines 61-63: collect a sample from the switches, append it
\* and sleep.
SamplerAppend(i) ==
    /\ sampler_pc[i] = "collect"
    /\ \E readings \in [Switches -> SampledSwitchStats] :
         samples' = SamplesAppend(samples, CollectSample(clock, readings))
    /\ clock' = clock + 1
    /\ sampler_pc' = [sampler_pc EXCEPT ![i] = "check"]
    /\ UNCHANGED <<monitoring, monitor_thread, ticks, caller, stats, stops, stopSamples>>

\* get_statistics, line 221: total_samples.
GsTotal ==
    /\ caller = "idle"
    /\ stats' = [NoStats EXCEPT !.total_samples = Len(samples)]
    /\ caller' = "gs_duration"
    /\ UNCHANGED <<monitoring, monitor_thread, samples, sampler_pc, ticks, clock, stops, stopSamples>>

\* Lines 228-231: duration.
GsDuration ==
    /\ caller = "gs_duration"
    /\ stats' = [stats EXCEPT !.duration = Duration(samples)]
    /\ caller' = "gs_util"
    /\ UNCHANGED <<monitoring, monitor_thread, samples, sampler_pc, ticks, clock, stops, stopSamples>>

\* Lines 234-242: compute_link_utilization and its summary.
GsUtil ==
    /\ caller = "gs_util"
    /\ stats' = [stats EXCEPT !.link_utilization = LinkUtilizationStats(samples)]
    /\ caller' = "gs_drops"
    /\ UNCHANGED <<monitoring, monitor_thread, samples, sampler_pc, ticks, clock, stops, stopSamples>>

\* Lines 245-254: packet drops of the last sample, and return.
GsDrops ==
    /\ caller = "gs_drops"
    /\ stats' = [stats EXCEPT !.packet_drops = PacketDrops(samples)]
    /\ caller' = "gs_done"
    /\ UNCHANGED <<monitoring, monitor_thread, samples, sampler_pc, ticks, clock, stops, stopSamples>>

\* The caller has the statistics and goes on.
GsReturn ==
    /\ caller = "gs_done"
    /\ stats' = NoStats
    /\ caller' = "idle"
    /\ UNCHANGED <<monitoring, monitor_thread, samples, sampler_pc, ticks, clock, stops, stopSamples>>

\* ------------------------------ CongestionAwareRouter and the controller

Modes == {"flowlet", "congestion", "hybrid"}
NoMode == "unset"

\* The links of the network, as (switch, port) pairs, and the links of each
\* path as path_links_map gives them.
CtlLinks == {<<"s1", p>> : p \in Paths}
PathLinksMap == [p \in Paths |-> << <<"s1", p>> >>]

VARIABLES
    mode,               \* AdaptiveRoutingController.mode, NoMode before __init__
    cr_monitoring,      \* congestion_router.monitoring
    cr_monitor_thread,  \* congestion_router.monitor_thread, NoSampler for None
    cr_pc,              \* position of each congestion sampler thread
    cr_probes,          \* passes of the sampler loop begun so far
    link_stats,         \* congestion_router.link_stats
    ctl_caller,         \* position of the thread that calls start() and stop()
    ctl_starts,         \* history: start() calls made
    ctl_stops,          \* history: stop() calls completed since the last start()
    ctl_flowlet,        \* the controller's flowlet_router: [table, loads]
    ctl_out             \* history: the last path selection and its inputs

ctlThreadVars == <<cr_monitoring, cr_monitor_thread, cr_pc, cr_probes,
                   ctl_caller, ctl_starts, ctl_stops>>
ctlVars == <<mode, link_stats, ctlThreadVars>>
hybVars == <<ctl_flowlet, ctl_out>>

\* What _collect_stats stores for a link.
ZeroLinkStats == [util |-> 0, queue |-> 0, bytes_tx |-> 0, bytes_rx |-> 0]

\* A link without a record counted as fully used.
LinkUtilMissingFull(lstats, link) ==
    IF link \in DOMAIN lstats THEN lstats[link].util ELSE MaxUtil

\* self.link_stats.get((switch, port), {'util': 0.0})['util']
LinkUtil(lstats, link) == IF link \in DOMAIN lstats THEN lstats[link].util ELSE 0

RECURSIVE TotalCongestion(_, _)
TotalCongestion(path_links, lstats) ==
    IF path_links = <<>> THEN 0
    ELSE LinkUtil(lstats, Head(path_links)) + TotalCongestion(Tail(path_links), lstats)

\* get_path_score: total_congestion / len(path_links), kept as the fraction
\* [num, den]; a path without links scores 0.
GetPathScore(path_id, path_links, lstats) ==
    IF path_links = <<>> THEN [num |-> 0, den |-> 1]
    ELSE [num |-> TotalCongestion(path_links, lstats), den |-> Len(path_links)]

ScoreLess(a, b) == a.num * b.den < b.num * a.den

\* path_links_map.get(path_id, [])
PathLinksGet(path_links_map, path_id) ==
    IF path_id \in DOMAIN path_links_map THEN path_links_map[path_id] ELSE <<>>

\* The last of the keys of minimal score instead of the first.
ScoreMinIndexLast(available_paths, path_links_map, lstats) ==
    LET score(i) == GetPathScore(available_paths[i],
                                 PathLinksGet(path_links_map, available_paths[i]), lstats)
    IN CHOOSE i \in 1..Len(available_paths) :
           /\ \A j \in 1..Len(available_paths) : ~ScoreLess(score(j), score(i))
           /\ \A j \in (i + 1)..Len(available_paths) : ScoreLess(score(i), score(j))

\* min(path_scores.keys(), key=...): the first key, in the order of
\* available_paths, that no other key beats.
ScoreMinIndex(available_paths, path_links_map, lstats) ==
    LET score(i) == GetPathScore(available_paths[i],
                                 PathLinksGet(path_links_map, available_paths[i]), lstats)
    IN CHOOSE i \in 1..Len(available_paths) :
           /\ \A j \in 1..Len(available_paths) : ~ScoreLess(score(j), score(i))
           /\ \A j \in 1..(i - 1) : ScoreLess(score(i), score(j))

\* select_path for a non-empty available_paths.
SelectPath(available_paths, path_links_map, lstats) ==
    available_paths[ScoreMinIndex(available_paths, path_links_map, lstats)]

CrAlive(i) == cr_pc[i] \in {"check", "collect"}

NoOut == [op |-> "none", kind |-> "none", mode |-> NoMode, ret |-> NoPath,
          prev |-> NoPath, best |-> NoPath]

CtlInit ==
    /\ mode = NoMode
    /\ cr_monitoring = FALSE
    /\ cr_monitor_thread = NoSampler
    /\ cr_pc = [i \in SamplerIds |-> "unborn"]
    /\ cr_probes = 0
    /\ link_stats = EmptyDict
    /\ ctl_caller = "idle"
    /\ ctl_starts = 0
    /\ ctl_stops = 0
    /\ ctl_flowlet = [table |-> EmptyDict, loads |-> EmptyDict]
    /\ ctl_out = NoOut

\* AdaptiveRoutingController.__init__
Construct ==
    /\ mode = NoMode
    /\ \E m \in Modes : mode' = m
    /\ UNCHANGED <<link_stats, ctlThreadVars>>

\* CongestionAwareRouter.start_monitoring
StartMonitoring ==
    /\ cr_monitoring' = TRUE
    /\ \E i \in SamplerIds :
        /\ cr_pc[i] = "unborn"
        /\ \A j \in SamplerIds : j < i => cr_pc[j] # "unborn"
        /\ cr_pc' = [cr_pc EXCEPT ![i] = "check"]
        /\ cr_monitor_thread' = i

\* AdaptiveRoutingController.start
CtlStart ==
    /\ mode # NoMode
    /\ ctl_caller = "idle"
    /\ ctl_starts < MaxStarts
    /\ IF mode \in {"congestion", "hybrid"}
       THEN StartMonitoring
       ELSE UNCHANGED <<cr_monitoring, cr_pc, cr_monitor_thread>>
    /\ ctl_starts' = ctl_starts + 1
    /\ ctl_stops' = 0
    /\ UNCHANGED <<mode, link_stats, cr_probes, ctl_caller>>

\* AdaptiveRoutingController.stop, stop_monitoring line 97: clear the flag.
CtlStopBegin ==
    /\ mode # NoMode
    /\ ctl_caller = "idle"
    /\ cr_monitoring' = FALSE
    /\ ctl_caller' = "joining"
    /\ UNCHANGED <<mode, link_stats, cr_monitor_thread, cr_pc, cr_probes,
                   ctl_starts, ctl_stops>>

\* stop_monitoring lines 98-99: join the thread in monitor_thread, if any.
CrJoinReady ==
    IF cr_monitor_thread = NoSampler THEN TRUE ELSE cr_pc[cr_monitor_thread] = "dead"

CtlStopJoin ==
    /\ ctl_caller = "joining"
    /\ CrJoinReady
    /\ ctl_caller' = "idle"
    /\ ctl_stops' = IF ctl_stops < 2 THEN ctl_stops + 1 ELSE ctl_stops
    /\ UNCHANGED <<mode, link_stats, cr_monitoring, cr_monitor_thread, cr_pc,
                   cr_probes, ctl_starts>>

\* _monitor_loop, line 103: the loop test.
CrSamplerCheck(i) ==
    /\ cr_pc[i] = "check"
    /\ IF cr_monitoring
       THEN /\ cr_probes < MaxTicks
            /\ cr_pc' = [cr_pc EXCEPT ![i] = "collect"]
            /\ cr_probes' = cr_probes + 1
       ELSE /\ cr_pc' = [cr_pc EXCEPT ![i] = "dead"]
            /\ UNCHANGED cr_probes
    /\ UNCHANGED <<mode, link_stats, cr_monitoring, cr_monitor_thread,
                   ctl_caller, ctl_starts, ctl_stops>>

\* A sampler that records a utilization for the links it has seen before.
CollectStatsMeasured(lstats) == [l \in DOMAIN lstats \cup CtlLinks |->
                            IF l \in DOMAIN lstats
                            THEN [ZeroLinkStats EXCEPT !.util = 1]
                            ELSE ZeroLinkStats]

\* _collect_stats: every link of every switch gets the same record.
CollectStats(lstats) == [l \in DOMAIN lstats \cup CtlLinks |->
                            IF l \in CtlLinks THEN ZeroLinkStats ELSE lstats[l]]

\* _monitor_loop, lines 104-105: one pass of _collect_stats, then sleep.
CrSamplerCollect(i) ==
    /\ cr_pc[i] = "collect"
    /\ link_stats' = CollectStats(link_stats)
    /\ cr_pc' = [cr_pc EXCEPT ![i] = "check"]
    /\ UNCHANGED <<mode, cr_monitoring, cr_monitor_thread, cr_probes,
                   ctl_caller, ctl_starts, ctl_stops>>

\* The path of flow_key in the table, NoPath when it has none.
TablePath(table, flow_key) ==
    IF flow_key \in DOMAIN table THEN table[flow_key][2] ELSE NoPath

\* controller.flowlet_router.get_flowlet_path(...): the only lookup of the
\* controller that knows flowlets.  ctl_out keeps what select_path answers
\* for the same available_paths at the same moment.
CtlGetFlowletPath ==
    /\ mode # NoMode
    /\ \E k \in Keys, ps \in PathLists, now \in Times :
        LET r == GetFlowletPath(ctl_flowlet.table, ctl_flowlet.loads, k, ps, now)
        IN /\ ctl_flowlet' = [ctl_flowlet EXCEPT !.table = r.table]
           /\ ctl_out' = [op |-> "get_flowlet_path", kind |-> r.kind, mode |-> mode,
                          ret |-> r.ret,
                          prev |-> TablePath(ctl_flowlet.table, k),
                          best |-> IF ps = <<>> THEN NoPath
                                   ELSE SelectPath(ps, PathLinksMap, link_stats)]
    /\ UNCHANGED <<mode, link_stats, ctlThreadVars>>

\* controller.flowlet_router.update_path_load(...)
CtlUpdatePathLoad ==
    /\ mode # NoMode
    /\ \E p \in Paths, d \in Deltas :
        /\ PathLoadsGet(ctl_flowlet.loads, p) + d \in 0..MaxLoad
        /\ ctl_flowlet' = [ctl_flowlet EXCEPT
                              !.loads = UpdatePathLoad(ctl_flowlet.loads, p, d)]
    /\ UNCHANGED <<mode, link_stats, ctlThreadVars, ctl_out>>

\* controller.congestion_router.select_path(...); min() of no keys raises.
CtlSelectPath ==
    /\ mode # NoMode
    /\ \E ps \in PathLists :
        ctl_out' = IF ps = <<>>
                   THEN [NoOut EXCEPT !.op = "select_path", !.kind = "raised",
                                      !.mode = mode]
                   ELSE [NoOut EXCEPT !.op = "select_path", !.kind = "selected",
                                      !.mode = mode,
                                      !.ret = SelectPath(ps, PathLinksMap, link_stats),
                                      !.best = SelectPath(ps, PathLinksMap, link_stats)]
    /\ UNCHANGED <<mode, link_stats, ctlThreadVars, ctl_flowlet>>

\* One pass of the congestion sampler, which start() launches in the modes
\* congestion and hybrid only.
CtlCollectStats ==
    /\ mode \in {"congestion", "hybrid"}
    /\ link_stats' = CollectStats(link_stats)
    /\ UNCHANGED <<mode, ctlThreadVars, ctl_flowlet, ctl_out>>

\* ------------------------------------------- congestion scores on their own

\* Link utilizations are counted in quarters (0, 0.25, 0.5), values for which
\* the sums and quotients of get_path_score are exact in floating point.
Utils == 0..MaxUtil

\* path_links arguments: the lists of at most two links.
LinkLists == {<<>>} \cup {<<l>> : l \in CtlLinks}
                    \cup {<<l, m>> : l \in CtlLinks, m \in CtlLinks}

\* path_links_map arguments: a list of links for some of the paths.
PathLinksMaps == UNION {[D -> LinkLists] : D \in SUBSET Paths}

VARIABLES
    score_out           \* history: the last call of a scoring method

scoreVars == <<score_out>>

NoScoreOut == [op |-> "none", kind |-> "none", available_paths |-> <<>>,
               path_links_map |-> EmptyDict, path_links |-> <<>>,
               ret |-> NoPath, score |-> [num |-> 0, den |-> 1]]

ScoreInit == score_out = NoScoreOut

\* link_stats[(switch, port)] is assigned by code outside the class (the
\* dictionary is the documented place for utilization readings).
SetLinkStats ==
    /\ \E l \in CtlLinks, u \in Utils :
        link_stats' = Put(link_stats, l, [ZeroLinkStats EXCEPT !.util = u])
    /\ score_out' = NoScoreOut
    /\ UNCHANGED <<mode, ctlThreadVars, hybVars>>

\* A call of select_path.
ScoreSelectPath ==
    /\ \E ps \in PathLists, m \in PathLinksMaps :
        score_out' =
            IF ps = <<>>
            THEN [NoScoreOut EXCEPT !.op = "select_path", !.kind = "raised",
                                    !.path_links_map = m]
            ELSE [NoScoreOut EXCEPT !.op = "select_path", !.kind = "selected",
                                    !.available_paths = ps, !.path_links_map = m,
                                    !.ret = SelectPath(ps, m, link_stats)]
    /\ UNCHANGED <<ctlVars, hybVars>>

\* A call of get_path_score.
ScoreGetPathScore ==
    /\ \E p \in Paths, links \in LinkLists :
        score_out' = [NoScoreOut EXCEPT !.op = "get_path_score", !.kind = "scored",
                                        !.path_links = links,
                                        !.score = GetPathScore(p, links, link_stats)]
    /\ UNCHANGED <<ctlVars, hybVars>>

\* ------------------------------------------ statistics over given samples

\* The network of create_network: every link is made with bw=10 (Mbit/s).
TopoLinkBps == 10 * 1000 * 1000

\* Samples of a network of two switches with one port each, as self.samples
\* can hold them: a switch may be missing from a sample, its port line may
\* be missing, and the counters differ from sample to sample.
UtilSwitches == {"s1", "s2"}
UtilPortValues ==
    {[tx_bytes |-> 0, rx_drops |-> 0, tx_drops |-> 0],
     [tx_bytes |-> 125000, rx_drops |-> 1, tx_drops |-> 1],
     [tx_bytes |-> 250000, rx_drops |-> 0, tx_drops |-> 1]}
UtilPortDicts == UNION {[D -> UtilPortValues] : D \in SUBSET PortNums}
UtilReadings ==
    {r \in UNION {[D -> [ports : UtilPortDicts]] : D \in SUBSET UtilSwitches} :
        "s2" \in DOMAIN r =>
            /\ DOMAIN r["s2"].ports = PortNums
            /\ \A port \in PortNums : r["s2"].ports[port].tx_bytes = 125000}

\* Seconds between two samples: the sleep of sample_interval, or that and a
\* second spent collecting.
SampleGaps == {SampleInterval, SampleInterval + 1}

VARIABLES
    util_out            \* history: the last statistics computed and returned

utilVars == <<util_out>>

NoUtilOut == [op |-> "none", link_util |-> EmptyDict, stats |-> NoStats]

UtilInit == util_out = NoUtilOut

\* One more sample is stored in self.samples.
LoadSample ==
    /\ Len(samples) < MaxTicks
    /\ \E r \in UtilReadings, gap \in SampleGaps :
        samples' = SamplesAppend(samples,
                       CollectSample(IF samples = <<>> THEN 0
                                     ELSE samples[Len(samples)].timestamp + gap, r))
    /\ util_out' = NoUtilOut
    /\ UNCHANGED <<monitoring, monitor_thread, sampler_pc, ticks, clock, caller,
                   stats, stops, stopSamples>>

\* compute_link_utilization() called while nothing is appended.
CallComputeLinkUtilization ==
    /\ util_out' = [NoUtilOut EXCEPT !.op = "compute_link_utilization",
                                     !.link_util = ComputeLinkUtilization(samples)]
    /\ UNCHANGED monVars

\* get_statistics() called while nothing is appended.
CallGetStatistics ==
    /\ util_out' = [NoUtilOut EXCEPT !.op = "get_statistics",
                                     !.stats = GetStatistics(samples)]
    /\ UNCHANGED monVars

\* ----------------------------------------------------- FlowCompletionTracker

FlowIds == {"f1", "f2"}
NoFlow == "noflow"

VARIABLES
    flows,              \* self.flows: flow id -> the record of an open flow
    completed_flows,    \* self.completed_flows: the closed records, in order
    fct_now,            \* what time.time() returns, in seconds
    fct_hits,           \* history: end_flow calls that found their flow open
    fct_out             \* history: the last call of the tracker

fctVars == <<flows, completed_flows, fct_now, fct_hits, fct_out>>

\* The record start_flow stores; src, dst and size are stored next to
\* start_time and read by no statistic.
OpenRecord(t) == [start_time |-> t]

\* The record end_flow appends: the open record with end_time and fct added.
ClosedRecord(flow, t) ==
    [start_time |-> flow.start_time, end_time |-> t, fct |-> t - flow.start_time]

\* start_flow: self.flows[flow_id] = {...}
StartFlowDict(fl, flow_id, t) == Put(fl, flow_id, OpenRecord(t))

\* end_flow that leaves the flow among the open ones.
EndFlowDictKeep(fl, flow_id) == fl

\* end_flow, lines 311-316: what becomes of self.flows and of
\* self.completed_flows; nothing when the flow is not open.
EndFlowDict(fl, flow_id) ==
    IF flow_id \in DOMAIN fl THEN [x \in DOMAIN fl \ {flow_id} |-> fl[x]] ELSE fl

EndFlowCompleted(fl, cf, flow_id, t) ==
    IF flow_id \in DOMAIN fl THEN Append(cf, ClosedRecord(fl[flow_id], t)) ELSE cf

\* fcts.sort(): list.sort is a stable merge sort.  Two sorted runs are
\* merged by giving every element its place in the result: an element of
\* the left run goes after the elements of the right run that are smaller,
\* an element of the right run after those of the left run that are not
\* greater.
MergeSorted(left, right) ==
    LET PlaceLeft(i) == i + Cardinality({j \in DOMAIN right : right[j] < left[i]})
    IN [k \in 1..(Len(left) + Len(right)) |->
           IF \E i \in DOMAIN left : PlaceLeft(i) = k
           THEN left[CHOOSE i \in DOMAIN left : PlaceLeft(i) = k]
           ELSE right[CHOOSE j \in DOMAIN right :
                         j + Cardinality({i \in DOMAIN left : left[i] <= right[j]}) = k]]

RECURSIVE SortedSeq(_)
SortedSeq(q) ==
    IF Len(q) <= 1 THEN q
    ELSE LET h == Len(q) \div 2
         IN MergeSorted(SortedSeq(SubSeq(q, 1, h)), SortedSeq(SubSeq(q, h + 1, Len(q))))

\* fcts[n - 1] in place of the percentile element.
PercentileIndexLast(n, pct) == n - 1

\* int(n * 0.95) and int(n * 0.99), pct being 95 or 99; for the n met here
\* the floating-point product has the integer part of n * pct / 100.
PercentileIndex(n, pct) == (n * pct) \div 100

\* The empty dictionary get_fct_stats returns without closed records.
NoFctStats ==
    [empty |-> TRUE, count |-> 0, mean |-> <<0, 1>>, median |-> 0, p95 |-> 0,
     p99 |-> 0, max |-> 0, min |-> 0]

\* get_fct_stats; indices count from 0 in the code and from 1 here, and the
\* mean sum/n is kept as the pair <<sum, n>>.
GetFctStats(cf) ==
    IF cf = <<>> THEN NoFctStats
    ELSE LET fcts == SortedSeq([i \in 1..Len(cf) |-> cf[i].fct])
             n == Len(fcts)
         IN [empty |-> FALSE, count |-> n, mean |-> <<SumSeq(fcts), n>>,
             median |-> fcts[(n \div 2) + 1],
             p95 |-> fcts[PercentileIndex(n, 95) + 1],
             p99 |-> fcts[PercentileIndex(n, 99) + 1],
             max |-> MaxSeq(fcts), min |-> MinSeq(fcts)]

NoFctOut == [op |-> "none", flow_id |-> NoFlow, hit |-> FALSE, raised |-> FALSE,
             stats |-> NoFctStats]

FctInit ==
    /\ flows = EmptyDict
    /\ completed_flows = <<>>
    /\ fct_now = 0
    /\ fct_hits = 0
    /\ fct_out = NoFctOut

\* Time passes.
Advance ==
    /\ fct_now < MaxNow
    /\ fct_now' = fct_now + 1
    /\ UNCHANGED <<flows, completed_flows, fct_hits, fct_out>>

\* start_flow(flow_id, src, dst, size)
StartFlow(flow_id) ==
    /\ flows' = StartFlowDict(flows, flow_id, fct_now)
    /\ fct_out' = [NoFctOut EXCEPT !.op = "start_flow", !.flow_id = flow_id]
    /\ UNCHANGED <<completed_flows, fct_now, fct_hits>>

\* end_flow that raises for a flow that is not open.
EndFlowStrict(flow_id) ==
    /\ flow_id \in DOMAIN flows => Len(completed_flows) < MaxFlows
    /\ flows' = EndFlowDict(flows, flow_id)
    /\ completed_flows' = EndFlowCompleted(flows, completed_flows, flow_id, fct_now)
    /\ fct_hits' = IF flow_id \in DOMAIN flows THEN fct_hits + 1 ELSE fct_hits
    /\ fct_out' = [NoFctOut EXCEPT !.op = "end_flow", !.flow_id = flow_id,
                                   !.hit = flow_id \in DOMAIN flows,
                                   !.raised = flow_id \notin DOMAIN flows]
    /\ UNCHANGED fct_now

\* end_flow(flow_id)
EndFlow(flow_id) ==
    /\ flow_id \in DOMAIN flows => Len(completed_flows) < MaxFlows
    /\ flows' = EndFlowDict(flows, flow_id)
    /\ completed_flows' = EndFlowCompleted(flows, completed_flows, flow_id, fct_now)
    /\ fct_hits' = IF flow_id \in DOMAIN flows THEN fct_hits + 1 ELSE fct_hits
    /\ fct_out' = [NoFctOut EXCEPT !.op = "end_flow", !.flow_id = flow_id,
                                   !.hit = flow_id \in DOMAIN flows]
    /\ UNCHANGED fct_now

\* get_fct_stats()
CallGetFctStats ==
    /\ fct_out' = [NoFctOut EXCEPT !.op = "get_fct_stats",
                                   !.stats = GetFctStats(completed_flows)]
    /\ UNCHANGED <<flows, completed_flows, fct_now, fct_hits>>

\* The durations of a run of flows that complete one after another: the
\* k-th flow lasts k seconds, or the first lasts MaxRamp seconds and each
\* later one a second less than the one before.
RampNext(cf) ==
    IF cf = <<>> THEN {1, MaxRamp}
    ELSE IF cf[1].fct = 1 THEN {Len(cf) + 1} ELSE {MaxRamp - Len(cf)}

\* start_flow("f1", ...), d seconds, end_flow("f1"), with no other call in
\* between.
RunFlow ==
    /\ Len(completed_flows) < MaxRamp
    /\ \E d \in RampNext(completed_flows) :
        LET started == StartFlowDict(flows, "f1", fct_now)
        IN /\ flows' = EndFlowDict(started, "f1")
           /\ completed_flows' = EndFlowCompleted(started, completed_flows, "f1",
                                                  fct_now + d)
           /\ fct_now' = fct_now + d
    /\ fct_hits' = fct_hits + 1
    /\ fct_out' = [NoFctOut EXCEPT !.op = "end_flow", !.flow_id = "f1", !.hit = TRUE]

\* ------------------------------------------------- sampling with failures

\* A network of two switches: s1 with two ports, s2 with one.
FaultSwitches == {"s1", "s2"}
FaultPorts(sw) == IF sw = "s1" THEN {"1", "2"} ELSE {"1"}

\* What a tick meets at one switch: whether switch.cmd returns or raises,
\* and for every port whether its line of the output parses.
RawSwitch(sw) == [cmd_ok : BOOLEAN, lines : [FaultPorts(sw) -> BOOLEAN]]

Failures(raw) ==
    Cardinality({sw \in FaultSwitches : ~raw[sw].cmd_ok})
        + Cardinality({l \in FaultSwitches \X {"1", "2"} :
                          /\ l[2] \in FaultPorts(l[1])
                          /\ ~raw[l[1]].lines[l[2]]})

\* The ticks in which at most one thing fails.
RawReadings ==
    {raw \in [s1 : RawSwitch("s1"), s2 : RawSwitch("s2")] : Failures(raw) <= 1}

\* The counters the switch reports for a port at a time.
TruePortStats(sw, port, now) ==
    [tx_bytes |-> 125000 * now,
     rx_drops |-> IF port = "2" THEN 1 ELSE 0,
     tx_drops |-> IF sw = "s2" THEN 1 ELSE 0]

VARIABLES
    last_raw            \* history: what the last sampling tick met

faultVars == <<last_raw>>

NoRaw == [sw \in FaultSwitches |->
             [cmd_ok |-> TRUE, lines |-> [port \in FaultPorts(sw) |-> TRUE]]]

FaultInit == last_raw = NoRaw

\* _parse_port_stats that gives up at the first line that fails.
ParsePortStatsStopAtError(sw, lines, now) ==
    [port \in {p \in DOMAIN lines : lines[p] /\ (p = "2" => lines["1"])} |->
        TruePortStats(sw, port, now)]

\* _parse_port_stats: an entry for every line that parses; a line that does
\* not match or raises is skipped.
ParsePortStats(sw, lines, now) ==
    [port \in {p \in DOMAIN lines : lines[p]} |-> TruePortStats(sw, port, now)]

\* _get_switch_stats: the ports stay {} when switch.cmd or the parsing
\* raises (lines 88-92).
GetSwitchStats(sw, raw, now) ==
    IF raw.cmd_ok THEN [ports |-> ParsePortStats(sw, raw.lines, now)]
    ELSE [ports |-> EmptyDict]

\* _monitor_loop, lines 61-63, over readings that can fail.
SamplerCollect(i) ==
    /\ sampler_pc[i] = "collect"
    /\ \E raw \in RawReadings :
         /\ samples' = SamplesAppend(samples,
                CollectSample(clock, [sw \in FaultSwitches |->
                                         GetSwitchStats(sw, raw[sw], clock)]))
         /\ last_raw' = raw
    /\ clock' = clock + 1
    /\ sampler_pc' = [sampler_pc EXCEPT ![i] = "check"]
    /\ UNCHANGED <<monitoring, monitor_thread, ticks, caller, stats, stops, stopSamples>>

\* --------------------------------------------------------- specifications

\* ------------------------------------------- ResultsAnalyzer and comparison

\* Numbers numpy computes (means, percentiles, quotients) are kept as exact
\* fractions num/den with den > 0.
Frac(n, d) == [num |-> n, den |-> d]

\* The outcome of a division by zero: an exception for Python numbers, inf or
\* nan for numpy's.
DivisionByZero == Frac(1, 0)

RECURSIVE Gcd(_, _)
Gcd(a, b) == IF b = 0 THEN a ELSE Gcd(b, a % b)

\* The same number in lowest terms with a positive denominator.
Lowest(x) ==
    LET n == IF x.den < 0 THEN -x.num ELSE x.num
        d == IF x.den < 0 THEN -x.den ELSE x.den
        g == Gcd(IF n < 0 THEN -n ELSE n, d)
    IN Frac(n \div g, d \div g)
FracZero == Frac(0, 1)
FracPositive(x) == x.num > 0
FracEq(x, y) == x.num * y.den = y.num * x.den

\* The flows of a results file ('traffic'): bps_received in bit/s and
\* flow_completion_time in seconds; NoField marks a key the flow lacks.
NoField == -1
TrafficLists ==
    {<<>>,
     <<[bps_received |-> 0, flow_completion_time |-> 0]>>,
     <<[bps_received |-> 4000000, flow_completion_time |-> 3]>>,
     <<[bps_received |-> 2000000, flow_completion_time |-> NoField]>>,
     <<[bps_received |-> 0, flow_completion_time |-> 0],
       [bps_received |-> 4000000, flow_completion_time |-> 3]>>}

\* The 'mean' entries of monitoring.link_utilization, one per link, in
\* percent; the lists are those whose standard deviation is rational.
MeanUtilLists ==
    {<<>>, <<0, 0, 0, 0>>, <<10, 10, 10, 10>>, <<10, 30>>, <<0, 0, 0, 0, 10>>}

\* The values of monitoring.packet_drops, one per link that has drops.
DropLists == {<<>>, <<3>>, <<1, 3>>}

\* self.data of a ResultsAnalyzer: the parsed results file.
AnalysisData ==
    [traffic : TrafficLists, has_monitoring : {TRUE},
     link_utilization : MeanUtilLists, packet_drops : DropLists]
    \cup {[traffic |-> t, has_monitoring |-> FALSE,
           link_utilization |-> <<>>, packet_drops |-> <<>>] : t \in TrafficLists}

NoData == [traffic |-> <<>>, has_monitoring |-> FALSE,
           link_utilization |-> <<>>, packet_drops |-> <<>>]

\* The values of one key over the flows that have it, in order.
RECURSIVE SelectField(_, _)
SelectField(q, field) ==
    IF q = <<>> THEN <<>>
    ELSE LET rest == SelectField(Tail(q), field)
         IN IF Head(q)[field] = NoField THEN rest ELSE <<Head(q)[field]>> \o rest

\* np.percentile(a, 99) with linear interpolation: position 0.99 * (n - 1)
\* in the sorted values.
Percentile99(q) ==
    LET sorted == SortedSeq(q)
        n == Len(sorted)
        pos == 99 * (n - 1)
        k == pos \div 100
        r == pos % 100
    IN IF r = 0 THEN Frac(sorted[k + 1], 1)
       ELSE Frac(sorted[k + 1] * (100 - r) + sorted[k + 2] * r, 100)

\* analyze_throughput, lines 28-59: None without flows that report
\* bps_received; the throughputs are in Mbit/s (line 35; the bps_received
\* values are whole Mbit/s, so the quotient is exact).  The other entries of
\* the dict are read by no comparison.
NoThroughput == [present |-> FALSE, mean_mbps |-> FracZero, has_fct |-> FALSE,
                 fct_p99 |-> FracZero]

AnalyzeThroughput(data) ==
    LET received == SelectField(data.traffic, "bps_received")
        throughputs == [i \in 1..Len(received) |-> received[i] \div 1000000]
        fcts == SelectField(data.traffic, "flow_completion_time")
    IN IF throughputs = <<>> THEN NoThroughput
       ELSE [present |-> TRUE,
             mean_mbps |-> Frac(SumSeq(throughputs), Len(throughputs)),
             has_fct |-> fcts # <<>>,
             fct_p99 |-> IF fcts = <<>> THEN FracZero ELSE Percentile99(fcts)]

\* n times np.std(q): the root of n * sum(x^2) - sum(x)^2.
SumSquares(q) == SumSeq([i \in 1..Len(q) |-> q[i] * q[i]])
StdTimesLen(q) ==
    LET v == Len(q) * SumSquares(q) - SumSeq(q) * SumSeq(q)
    IN CHOOSE r \in 0..v : r * r = v

\* A balance score without the test of the mean.
BalanceScoreUnguarded(mean_utils) ==
    IF SumSeq(mean_utils) = 0 THEN DivisionByZero
    ELSE Frac(SumSeq(mean_utils) - StdTimesLen(mean_utils), SumSeq(mean_utils))

\* Line 78: 1.0 - std / mean when the mean is positive, else 0; with
\* mean = sum / n and std = StdTimesLen / n this is (sum - StdTimesLen) / sum.
BalanceScore(mean_utils) ==
    IF SumSeq(mean_utils) > 0
    THEN Frac(SumSeq(mean_utils) - StdTimesLen(mean_utils), SumSeq(mean_utils))
    ELSE FracZero

\* analyze_utilization, lines 63-80.
NoUtilization == [present |-> FALSE, avg_mean_util |-> FracZero,
                  balance_score |-> FracZero, num_links |-> 0]

AnalyzeUtilization(data) ==
    IF ~data.has_monitoring \/ data.link_utilization = <<>> THEN NoUtilization
    ELSE [present |-> TRUE,
          avg_mean_util |-> Frac(SumSeq(data.link_utilization), Len(data.link_utilization)),
          balance_score |-> BalanceScore(data.link_utilization),
          num_links |-> Len(data.link_utilization)]

\* Line 94: total_drops / len(drops) if drops else 0.
AvgDropsPerLink(drops) ==
    IF drops # <<>> THEN Frac(SumSeq(drops), Len(drops)) ELSE FracZero

\* analyze_drops, lines 84-95.
NoDrops == [present |-> FALSE, total_drops |-> 0, num_congested_links |-> 0,
            avg_drops_per_link |-> FracZero]

AnalyzeDrops(data) ==
    IF ~data.has_monitoring THEN NoDrops
    ELSE [present |-> TRUE,
          total_drops |-> SumSeq(data.packet_drops),
          num_congested_links |-> Len(data.packet_drops),
          avg_drops_per_link |-> AvgDropsPerLink(data.packet_drops)]

\* get_summary, lines 99-106.
GetSummary(data) ==
    [throughput |-> AnalyzeThroughput(data),
     utilization |-> AnalyzeUtilization(data),
     drops |-> AnalyzeDrops(data)]

\* (a - b) / c * 100 for fractions.
PctOf(a, b, c) ==
    IF c.num = 0 \/ c.den = 0 THEN DivisionByZero
    ELSE Lowest(Frac((a.num * b.den - b.num * a.den) * c.den * 100,
                     a.den * b.den * c.num))

\* Lines 180 and 192: ((adaptive - ecmp) / ecmp) * 100 if ecmp > 0 else 0.
ImprovementPct(ecmp, adaptive) ==
    IF FracPositive(ecmp) THEN PctOf(adaptive, ecmp, ecmp) ELSE FracZero

\* A reduction computed with the sign of an improvement.
ReductionPctAsImprovement(ecmp, adaptive) ==
    IF FracPositive(ecmp) THEN PctOf(adaptive, ecmp, ecmp) ELSE FracZero

\* Lines 204 and 217: ((ecmp - adaptive) / ecmp) * 100 if ecmp > 0 else 0.
ReductionPct(ecmp, adaptive) ==
    IF FracPositive(ecmp) THEN PctOf(ecmp, adaptive, ecmp) ELSE FracZero

Metrics == {"throughput", "balance", "drops", "tail_latency"}

\* compare_metrics, lines 171-225: the entries of the comparison dict, each
\* with the ECMP value, the adaptive value and the percentage.
Compared(ecmp, adaptive, pct) == [ecmp |-> ecmp, adaptive |-> adaptive, pct |-> pct]

CompareMetrics(ecmp_data, adaptive_data) ==
    LET ecmp_summary == GetSummary(ecmp_data)
        adaptive_summary == GetSummary(adaptive_data)
        keys == {m \in Metrics :
                   \/ /\ m = "throughput"
                      /\ ecmp_summary.throughput.present
                      /\ adaptive_summary.throughput.present
                   \/ /\ m = "balance"
                      /\ ecmp_summary.utilization.present
                      /\ adaptive_summary.utilization.present
                   \/ /\ m = "drops"
                      /\ ecmp_summary.drops.present
                      /\ adaptive_summary.drops.present
                   \/ /\ m = "tail_latency"
                      /\ ecmp_summary.throughput.present
                      /\ adaptive_summary.throughput.present
                      /\ ecmp_summary.throughput.has_fct
                      /\ adaptive_summary.throughput.has_fct}
    IN [m \in keys |->
          CASE m = "throughput" ->
                 Compared(ecmp_summary.throughput.mean_mbps,
                          adaptive_summary.throughput.mean_mbps,
                          ImprovementPct(ecmp_summary.throughput.mean_mbps,
                                         adaptive_summary.throughput.mean_mbps))
            [] m = "balance" ->
                 Compared(ecmp_summary.utilization.balance_score,
                          adaptive_summary.utilization.balance_score,
                          ImprovementPct(ecmp_summary.utilization.balance_score,
                                         adaptive_summary.utilization.balance_score))
            [] m = "drops" ->
                 Compared(Frac(ecmp_summary.drops.total_drops, 1),
                          Frac(adaptive_summary.drops.total_drops, 1),
                          ReductionPct(Frac(ecmp_summary.drops.total_drops, 1),
                                       Frac(adaptive_summary.drops.total_drops, 1)))
            [] m = "tail_latency" ->
                 Compared(ecmp_summary.throughput.fct_p99,
                          adaptive_summary.throughput.fct_p99,
                          ReductionPct(ecmp_summary.throughput.fct_p99,
                                       adaptive_summary.throughput.fct_p99))]

VARIABLES
    ecmp_analyzer,      \* ComparisonAnalyzer.ecmp_analyzer.data
    adaptive_analyzer,  \* ComparisonAnalyzer.adaptive_analyzer.data
    cmp_out             \* history: what the last compare_metrics returned

cmpVars == <<ecmp_analyzer, adaptive_analyzer, cmp_out>>

NoCmpOut == [op |-> "none", comparison |-> EmptyDict,
             ecmp_summary |-> GetSummary(NoData),
             adaptive_summary |-> GetSummary(NoData)]

CmpInit ==
    /\ ecmp_analyzer = NoData
    /\ adaptive_analyzer = NoData
    /\ cmp_out = NoCmpOut

\* ResultsAnalyzer(results_file) for one of the two runs, lines 23-24.
LoadEcmpResults ==
    /\ \E data \in AnalysisData : ecmp_analyzer' = data
    /\ cmp_out' = NoCmpOut
    /\ UNCHANGED adaptive_analyzer

LoadAdaptiveResults ==
    /\ \E data \in AnalysisData : adaptive_analyzer' = data
    /\ cmp_out' = NoCmpOut
    /\ UNCHANGED ecmp_analyzer

\* A call of compare_metrics; the two summaries of lines 171-172 are kept
\* next to the comparison.
CallCompareMetrics ==
    /\ cmp_out' = [op |-> "compare_metrics",
                   comparison |-> CompareMetrics(ecmp_analyzer, adaptive_analyzer),
                   ecmp_summary |-> GetSummary(ecmp_analyzer),
                   adaptive_summary |-> GetSummary(adaptive_analyzer)]
    /\ UNCHANGED <<ecmp_analyzer, adaptive_analyzer>>

\* ------------------------------------------- LeafSpineTopo and ECMPRouter

\* A node name: spine1, leaf2, h3, ... as its kind and its number.
Node(kind, idx) == [kind |-> kind, idx |-> idx]
NoNode == Node("none", 0)

\* The arguments of LeafSpineTopo and the entries of topology_info.
TopoSizes ==
    [num_spines : 0..MaxSpines, num_leaves : 1..MaxLeaves,
     hosts_per_leaf : 0..MaxHostsPerLeaf]

NoNet == [num_spines |-> 0, num_leaves |-> 0, hosts_per_leaf |-> 0]

\* LeafSpineTopo.__init__, lines 38-65: the switches of the network.
TopoSpines(net) == {Node("spine", s) : s \in 1..net.num_spines}
TopoLeaves(net) == {Node("leaf", l) : l \in 1..net.num_leaves}

\* switch.intfList() of a switch of the network, in port order: lo on port 0
\* without a link, then one interface per link of the switch in the order
\* the links were added.  A leaf is linked to its hosts first (line 58) and
\* then to every spine (line 64); a spine gets its link to leaf l as its
\* l-th link.  host_id counts the hosts over all leaves (line 60).
Intf(port, peer) == [port |-> port, peer |-> peer]

IntfList(net, switch) ==
    IF switch.kind = "leaf"
    THEN <<Intf(0, NoNode)>>
         \o [h \in 1..net.hosts_per_leaf |->
                Intf(h, Node("h", (switch.idx - 1) * net.hosts_per_leaf + h))]
         \o [s \in 1..net.num_spines |->
                Intf(net.hosts_per_leaf + s, Node("spine", s))]
    ELSE <<Intf(0, NoNode)>>
         \o [l \in 1..net.num_leaves |-> Intf(l, Node("leaf", l))]

\* Lines 126-134 and 168-177: the ports of the interfaces whose link leads
\* to a node of the given kind, as the dict holds them: in the order of the
\* interfaces, with the peer each port faces.
RECURSIVE PortsTo(_, _)
PortsTo(intfs, kind) ==
    IF intfs = <<>> THEN <<>>
    ELSE IF Head(intfs).peer # NoNode /\ Head(intfs).peer.kind = kind
         THEN <<Head(intfs)>> \o PortsTo(Tail(intfs), kind)
         ELSE PortsTo(Tail(intfs), kind)

\* A list of spine ports that keeps only the last port found.
SpinePortsLastOnly(intfs) ==
    LET port_to_spine == PortsTo(intfs, "spine")
    IN IF port_to_spine = <<>> THEN <<>>
       ELSE <<port_to_spine[Len(port_to_spine)].port>>

\* Line 156: list(port_to_spine.values()).
SpinePorts(intfs) ==
    LET port_to_spine == PortsTo(intfs, "spine")
    IN [i \in 1..Len(port_to_spine) |-> port_to_spine[i].port]

\* A destination address 10.0.<leaf_num>.<h>.
HostIp(leaf_num, h) == <<10, 0, leaf_num, h>>

Rule(dst_ip, out_ports) == [dst_ip |-> dst_ip, out_ports |-> out_ports]

\* Lines 137-144: the rules of a leaf for its own hosts.
LocalRules(leaf_num, hosts_per_leaf) ==
    [h \in 1..hosts_per_leaf |-> Rule(HostIp(leaf_num, h), <<h>>)]

\* Lines 147-161: the rules of a leaf for the hosts of the other leaves, leaf
\* by leaf and host by host.
RECURSIVE RemoteRules(_, _, _, _, _)
RemoteRules(leaf_num, remote_leaf_num, num_leaves, hosts_per_leaf, spine_ports) ==
    IF remote_leaf_num > num_leaves THEN <<>>
    ELSE (IF remote_leaf_num = leaf_num THEN <<>>
          ELSE [h \in 1..hosts_per_leaf |->
                   Rule(HostIp(remote_leaf_num, h), spine_ports)])
         \o RemoteRules(leaf_num, remote_leaf_num + 1, num_leaves, hosts_per_leaf,
                        spine_ports)

LeafRules(net, info, leaf_num) ==
    LocalRules(leaf_num, info.hosts_per_leaf)
    \o RemoteRules(leaf_num, 1, info.num_leaves, info.hosts_per_leaf,
                   SpinePorts(IntfList(net, Node("leaf", leaf_num))))

\* Lines 180-189: the rules of a spine, for the hosts of every leaf it has a
\* port to.
RECURSIVE SpineRulesFrom(_, _, _, _)
SpineRulesFrom(port_to_leaf, leaf_num, num_leaves, hosts_per_leaf) ==
    IF leaf_num > num_leaves THEN <<>>
    ELSE LET facing == {i \in DOMAIN port_to_leaf : port_to_leaf[i].peer.idx = leaf_num}
         IN (IF facing = {} THEN <<>>
             ELSE [h \in 1..hosts_per_leaf |->
                      Rule(HostIp(leaf_num, h),
                           <<port_to_leaf[CHOOSE i \in facing :
                                             \A j \in facing : j <= i].port>>)])
            \o SpineRulesFrom(port_to_leaf, leaf_num + 1, num_leaves, hosts_per_leaf)

SpineRules(net, info, spine_num) ==
    SpineRulesFrom(PortsTo(IntfList(net, Node("spine", spine_num)), "leaf"),
                   1, info.num_leaves, info.hosts_per_leaf)

\* net.get(name) raises KeyError for a name the network does not have.
KnowsSwitches(net, info) ==
    info.num_spines <= net.num_spines /\ info.num_leaves <= net.num_leaves

\* build_routing_table, lines 110-191: a defaultdict(list), so a switch
\* without rules has no key.
BuildRoutingTable(net, info) ==
    LET rules == [sw \in {Node("leaf", l) : l \in 1..info.num_leaves}
                         \cup {Node("spine", s) : s \in 1..info.num_spines} |->
                     IF sw.kind = "leaf" THEN LeafRules(net, info, sw.idx)
                     ELSE SpineRules(net, info, sw.idx)]
    IN [sw \in {x \in DOMAIN rules : rules[x] # <<>>} |-> rules[sw]]

\* install_ecmp_rules, lines 69-92: what is sent to a switch for one rule: an
\* output flow for a single port, else a select group with one bucket per
\* port and a flow that points to the group.
InstallRule(rule) ==
    IF Len(rule.out_ports) = 1
    THEN <<[cmd |-> "add-flow", dst_ip |-> rule.dst_ip, action |-> "output",
            ports |-> rule.out_ports]>>
    ELSE <<[cmd |-> "add-group", dst_ip |-> rule.dst_ip, action |-> "select",
            ports |-> rule.out_ports],
           [cmd |-> "add-flow", dst_ip |-> rule.dst_ip, action |-> "group",
            ports |-> <<>>]>>

RECURSIVE InstallRules(_)
InstallRules(rules) ==
    IF rules = <<>> THEN <<>>
    ELSE InstallRule(Head(rules)) \o InstallRules(Tail(rules))

\* Lines 60-95 for the whole table.
InstallEcmpRules(table) == [sw \in DOMAIN table |-> InstallRules(table[sw])]

VARIABLES
    ecmp_net,        \* the network create_network built
    topology_info,   \* the topology_info of the last build_routing_table
    routing_table,   \* the routing table it returned
    installed,       \* the commands install_ecmp_rules sent, per switch
    ecmp_out         \* history: the last operation and how it ended

ecmpVars == <<ecmp_net, topology_info, routing_table, installed, ecmp_out>>

NoEcmpOut == [op |-> "none", kind |-> "none"]

EcmpInit ==
    /\ ecmp_net = NoNet
    /\ topology_info = NoNet
    /\ routing_table = EmptyDict
    /\ installed = EmptyDict
    /\ ecmp_out = NoEcmpOut

\* create_network, lines 71-85.
CreateNetwork ==
    /\ \E sizes \in TopoSizes : ecmp_net' = sizes
    /\ topology_info' = NoNet
    /\ routing_table' = EmptyDict
    /\ installed' = EmptyDict
    /\ ecmp_out' = [op |-> "create_network", kind |-> "returned"]

\* A call of build_routing_table on the network.
CallBuildRoutingTable ==
    /\ ecmp_net # NoNet
    /\ \E info \in TopoSizes :
        /\ topology_info' = info
        /\ IF KnowsSwitches(ecmp_net, info)
           THEN /\ routing_table' = BuildRoutingTable(ecmp_net, info)
                /\ ecmp_out' = [op |-> "build_routing_table", kind |-> "returned"]
           ELSE /\ routing_table' = EmptyDict
                /\ ecmp_out' = [op |-> "build_routing_table", kind |-> "raised"]
    /\ installed' = EmptyDict
    /\ UNCHANGED ecmp_net

\* A call of install_ecmp_rules with the table that was built.
CallInstallEcmpRules ==
    /\ ecmp_out = [op |-> "build_routing_table", kind |-> "returned"]
    /\ installed' = InstallEcmpRules(routing_table)
    /\ ecmp_out' = [op |-> "install_ecmp_rules", kind |-> "returned"]
    /\ UNCHANGED <<ecmp_net, topology_info, routing_table>>

planVars == <<cmpVars, ecmpVars>>

extVars == <<scoreVars, utilVars, fctVars, faultVars, planVars>>

vars == <<flowletVars, twinVars, monVars, ctlVars, hybVars, extVars>>

Init ==
    /\ FlowletInit /\ TwinInit /\ MonInit /\ CtlInit /\ ScoreInit /\ UtilInit
    /\ FctInit /\ FaultInit /\ CmpInit /\ EcmpInit

\* Caller threads on one FlowletRouter.
Next ==
    \/ \E t \in Threads : Enter(t) /\ UNCHANGED <<twinVars, monVars, ctlVars, hybVars, extVars>>
    \/ \E t \in Threads : StickyReturn(t) /\ UNCHANGED <<twinVars, monVars, ctlVars, hybVars, extVars>>
    \/ \E t \in Threads : SelectReturn(t) /\ UNCHANGED <<twinVars, monVars, ctlVars, hybVars, extVars>>
    \/ \E t \in Threads : SelectRaise(t) /\ UNCHANGED <<twinVars, monVars, ctlVars, hybVars, extVars>>
    \/ \E t \in Threads : Return(t) /\ UNCHANGED <<twinVars, monVars, ctlVars, hybVars, extVars>>
    \/ \E t \in Threads : UpdateEnter(t) /\ UNCHANGED <<twinVars, monVars, ctlVars, hybVars, extVars>>
    \/ \E t \in Threads : UpdateWrite(t) /\ UNCHANGED <<twinVars, monVars, ctlVars, hybVars, extVars>>

Spec == Init /\ [][Next]_vars

\* Two FlowletRouter instances, each used by one caller.
NextTwin ==
    \/ TwinLookup /\ UNCHANGED <<flowletVars, monVars, ctlVars, hybVars, extVars>>
    \/ \E r \in Twins : TwinUpdate(r) /\ UNCHANGED <<flowletVars, monVars, ctlVars, hybVars, extVars>>

SpecTwin == Init /\ [][NextTwin]_vars

\* One NetworkMonitor, its sampler threads and one thread that calls start,
\* stop and get_statistics one after another.
NextMon ==
    \/ Start /\ UNCHANGED <<flowletVars, twinVars, ctlVars, hybVars, extVars>>
    \/ StopBegin /\ UNCHANGED <<flowletVars, twinVars, ctlVars, hybVars, extVars>>
    \/ StopJoin /\ UNCHANGED <<flowletVars, twinVars, ctlVars, hybVars, extVars>>
    \/ \E i \in SamplerIds : SamplerCheck(i) /\ UNCHANGED <<flowletVars, twinVars, ctlVars, hybVars, extVars>>
    \/ \E i \in SamplerIds : SamplerAppend(i) /\ UNCHANGED <<flowletVars, twinVars, ctlVars, hybVars, extVars>>
    \/ GsTotal /\ UNCHANGED <<flowletVars, twinVars, ctlVars, hybVars, extVars>>
    \/ GsDuration /\ UNCHANGED <<flowletVars, twinVars, ctlVars, hybVars, extVars>>
    \/ GsUtil /\ UNCHANGED <<flowletVars, twinVars, ctlVars, hybVars, extVars>>
    \/ GsDrops /\ UNCHANGED <<flowletVars, twinVars, ctlVars, hybVars, extVars>>
    \/ GsReturn /\ UNCHANGED <<flowletVars, twinVars, ctlVars, hybVars, extVars>>

SpecMon == Init /\ [][NextMon]_vars

\* One AdaptiveRoutingController, the sampler threads of its congestion
\* router and one thread that calls start and stop one after another.
NextCtl ==
    \/ Construct /\ UNCHANGED <<flowletVars, twinVars, monVars, hybVars, extVars>>
    \/ CtlStart /\ UNCHANGED <<flowletVars, twinVars, monVars, hybVars, extVars>>
    \/ CtlStopBegin /\ UNCHANGED <<flowletVars, twinVars, monVars, hybVars, extVars>>
    \/ CtlStopJoin /\ UNCHANGED <<flowletVars, twinVars, monVars, hybVars, extVars>>
    \/ \E i \in SamplerIds : CrSamplerCheck(i) /\ UNCHANGED <<flowletVars, twinVars, monVars, hybVars, extVars>>
    \/ \E i \in SamplerIds : CrSamplerCollect(i) /\ UNCHANGED <<flowletVars, twinVars, monVars, hybVars, extVars>>

SpecCtl == Init /\ [][NextCtl]_vars

\* One AdaptiveRoutingController and the path selections a caller can ask
\* of its two routers.
NextHybrid ==
    \/ Construct /\ UNCHANGED <<flowletVars, twinVars, monVars, hybVars, extVars>>
    \/ CtlGetFlowletPath /\ UNCHANGED <<flowletVars, twinVars, monVars, extVars>>
    \/ CtlUpdatePathLoad /\ UNCHANGED <<flowletVars, twinVars, monVars, extVars>>
    \/ CtlSelectPath /\ UNCHANGED <<flowletVars, twinVars, monVars, extVars>>
    \/ CtlCollectStats /\ UNCHANGED <<flowletVars, twinVars, monVars, extVars>>

SpecHybrid == Init /\ [][NextHybrid]_vars

\* One CongestionAwareRouter whose link_stats is filled from outside, and a
\* caller of its two scoring methods.
NextScore ==
    \/ SetLinkStats /\ UNCHANGED <<flowletVars, twinVars, monVars, utilVars, fctVars, faultVars, planVars>>
    \/ ScoreSelectPath /\ UNCHANGED <<flowletVars, twinVars, monVars, utilVars, fctVars, faultVars, planVars>>
    \/ ScoreGetPathScore /\ UNCHANGED <<flowletVars, twinVars, monVars, utilVars, fctVars, faultVars, planVars>>

SpecScore == Init /\ [][NextScore]_vars

\* One NetworkMonitor whose samples are given, and a caller of its statistics.
NextUtil ==
    \/ LoadSample /\ UNCHANGED <<flowletVars, twinVars, ctlVars, hybVars, scoreVars, fctVars, faultVars, planVars>>
    \/ CallComputeLinkUtilization /\ UNCHANGED <<flowletVars, twinVars, ctlVars, hybVars, scoreVars, fctVars, faultVars, planVars>>
    \/ CallGetStatistics /\ UNCHANGED <<flowletVars, twinVars, ctlVars, hybVars, scoreVars, fctVars, faultVars, planVars>>

SpecUtil == Init /\ [][NextUtil]_vars

\* One FlowCompletionTracker and one caller, while time passes.
NextFct ==
    \/ Advance /\ UNCHANGED <<flowletVars, twinVars, monVars, ctlVars, hybVars, scoreVars, utilVars, faultVars, planVars>>
    \/ \E f \in FlowIds : StartFlow(f) /\ UNCHANGED <<flowletVars, twinVars, monVars, ctlVars, hybVars, scoreVars, utilVars, faultVars, planVars>>
    \/ \E f \in FlowIds : EndFlow(f) /\ UNCHANGED <<flowletVars, twinVars, monVars, ctlVars, hybVars, scoreVars, utilVars, faultVars, planVars>>
    \/ CallGetFctStats /\ UNCHANGED <<flowletVars, twinVars, monVars, ctlVars, hybVars, scoreVars, utilVars, faultVars, planVars>>

SpecFct == Init /\ [][NextFct]_vars

\* One FlowCompletionTracker that records a long run of flows.
NextRamp ==
    \/ RunFlow /\ UNCHANGED <<flowletVars, twinVars, monVars, ctlVars, hybVars, scoreVars, utilVars, faultVars, planVars>>
    \/ CallGetFctStats /\ UNCHANGED <<flowletVars, twinVars, monVars, ctlVars, hybVars, scoreVars, utilVars, faultVars, planVars>>

SpecRamp == Init /\ [][NextRamp]_vars

\* One NetworkMonitor whose sampler threads meet switches that do not answer
\* and port lines that do not parse.
NextFault ==
    \/ Start /\ UNCHANGED <<flowletVars, twinVars, ctlVars, hybVars, scoreVars, utilVars, fctVars, faultVars, planVars>>
    \/ StopBegin /\ UNCHANGED <<flowletVars, twinVars, ctlVars, hybVars, scoreVars, utilVars, fctVars, faultVars, planVars>>
    \/ StopJoin /\ UNCHANGED <<flowletVars, twinVars, ctlVars, hybVars, scoreVars, utilVars, fctVars, faultVars, planVars>>
    \/ \E i \in SamplerIds : SamplerCheck(i) /\ UNCHANGED <<flowletVars, twinVars, ctlVars, hybVars, scoreVars, utilVars, fctVars, faultVars, planVars>>
    \/ \E i \in SamplerIds : SamplerCollect(i) /\ UNCHANGED <<flowletVars, twinVars, ctlVars, hybVars, scoreVars, utilVars, fctVars, planVars>>

SpecFault == Init /\ [][NextFault]_vars

\* path_links_map arguments that give one link to each path they list.
ProbeLinksMaps == {m \in PathLinksMaps : \A p \in DOMAIN m : Len(m[p]) = 1}

\* A call of select_path on the router whose sampler runs.
ProbeSelectPath ==
    /\ \E ps \in PathLists, m \in ProbeLinksMaps :
        score_out' =
            IF ps = <<>>
            THEN [NoScoreOut EXCEPT !.op = "select_path", !.kind = "raised",
                                    !.path_links_map = m]
            ELSE [NoScoreOut EXCEPT !.op = "select_path", !.kind = "selected",
                                    !.available_paths = ps, !.path_links_map = m,
                                    !.ret = SelectPath(ps, m, link_stats)]
    /\ UNCHANGED <<ctlVars, hybVars>>

\* One AdaptiveRoutingController whose congestion sampler is the only writer
\* of link_stats, and a caller of the scoring methods of its congestion
\* router.
NextProbe ==
    \/ Construct /\ UNCHANGED <<flowletVars, twinVars, monVars, hybVars, extVars>>
    \/ CtlStart /\ UNCHANGED <<flowletVars, twinVars, monVars, hybVars, extVars>>
    \/ CtlStopBegin /\ UNCHANGED <<flowletVars, twinVars, monVars, hybVars, extVars>>
    \/ CtlStopJoin /\ UNCHANGED <<flowletVars, twinVars, monVars, hybVars, extVars>>
    \/ \E i \in SamplerIds : CrSamplerCheck(i) /\ UNCHANGED <<flowletVars, twinVars, monVars, hybVars, extVars>>
    \/ \E i \in SamplerIds : CrSamplerCollect(i) /\ UNCHANGED <<flowletVars, twinVars, monVars, hybVars, extVars>>
    \/ ProbeSelectPath /\ UNCHANGED <<flowletVars, twinVars, monVars, utilVars, fctVars, faultVars, planVars>>
    \/ ScoreGetPathScore /\ UNCHANGED <<flowletVars, twinVars, monVars, utilVars, fctVars, faultVars, planVars>>

SpecProbe == Init /\ [][NextProbe]_vars

\* One caller thread that works with one sampling object, a NetworkMonitor or
\* an AdaptiveRoutingController (the two share no state): it calls start and
\* stop of that object one after another, in any order, while the sampler
\* threads of the object run.  Every thread that can take a step is scheduled
\* again: a sampler reaches its loop test and finishes its collection, and a
\* join that can return does.
MonitorUntouched == caller = "idle" /\ stops = 0 /\ \A i \in SamplerIds : sampler_pc[i] = "unborn"

NextStop ==
    \/ (mode = NoMode /\ Start) /\ UNCHANGED <<flowletVars, twinVars, ctlVars, hybVars, extVars>>
    \/ (mode = NoMode /\ StopBegin) /\ UNCHANGED <<flowletVars, twinVars, ctlVars, hybVars, extVars>>
    \/ StopJoin /\ UNCHANGED <<flowletVars, twinVars, ctlVars, hybVars, extVars>>
    \/ \E i \in SamplerIds : SamplerCheck(i) /\ UNCHANGED <<flowletVars, twinVars, ctlVars, hybVars, extVars>>
    \/ \E i \in SamplerIds : SamplerAppend(i) /\ UNCHANGED <<flowletVars, twinVars, ctlVars, hybVars, extVars>>
    \/ (MonitorUntouched /\ Construct) /\ UNCHANGED <<flowletVars, twinVars, monVars, hybVars, extVars>>
    \/ CtlStart /\ UNCHANGED <<flowletVars, twinVars, monVars, hybVars, extVars>>
    \/ CtlStopBegin /\ UNCHANGED <<flowletVars, twinVars, monVars, hybVars, extVars>>
    \/ CtlStopJoin /\ UNCHANGED <<flowletVars, twinVars, monVars, hybVars, extVars>>
    \/ \E i \in SamplerIds : CrSamplerCheck(i) /\ UNCHANGED <<flowletVars, twinVars, monVars, hybVars, extVars>>
    \/ \E i \in SamplerIds : CrSamplerCollect(i) /\ UNCHANGED <<flowletVars, twinVars, monVars, hybVars, extVars>>

FairStop ==
    /\ WF_vars(StopJoin /\ UNCHANGED <<flowletVars, twinVars, ctlVars, hybVars, extVars>>)
    /\ WF_vars(CtlStopJoin /\ UNCHANGED <<flowletVars, twinVars, monVars, hybVars, extVars>>)
    /\ \A i \in SamplerIds :
        /\ WF_vars(SamplerCheck(i) /\ UNCHANGED <<flowletVars, twinVars, ctlVars, hybVars, extVars>>)
        /\ WF_vars(SamplerAppend(i) /\ UNCHANGED <<flowletVars, twinVars, ctlVars, hybVars, extVars>>)
        /\ WF_vars(CrSamplerCheck(i) /\ UNCHANGED <<flowletVars, twinVars, monVars, hybVars, extVars>>)
        /\ WF_vars(CrSamplerCollect(i) /\ UNCHANGED <<flowletVars, twinVars, monVars, hybVars, extVars>>)

SpecStop == Init /\ [][NextStop]_vars /\ FairStop

\* One ComparisonAnalyzer whose two results files are read and compared.
NextCmp ==
    \/ LoadEcmpResults /\ UNCHANGED <<flowletVars, twinVars, monVars, ctlVars, hybVars, scoreVars, utilVars, fctVars, faultVars, ecmpVars>>
    \/ LoadAdaptiveResults /\ UNCHANGED <<flowletVars, twinVars, monVars, ctlVars, hybVars, scoreVars, utilVars, fctVars, faultVars, ecmpVars>>
    \/ CallCompareMetrics /\ UNCHANGED <<flowletVars, twinVars, monVars, ctlVars, hybVars, scoreVars, utilVars, fctVars, faultVars, ecmpVars>>

SpecCmp == Init /\ [][NextCmp]_vars

\* One ECMPRouter that plans and installs the rules of the networks
\* create_network builds.
NextEcmp ==
    \/ CreateNetwork /\ UNCHANGED <<flowletVars, twinVars, monVars, ctlVars, hybVars, scoreVars, utilVars, fctVars, faultVars, cmpVars>>
    \/ CallBuildRoutingTable /\ UNCHANGED <<flowletVars, twinVars, monVars, ctlVars, hybVars, scoreVars, utilVars, fctVars, faultVars, cmpVars>>
    \/ CallInstallEcmpRules /\ UNCHANGED <<flowletVars, twinVars, monVars, ctlVars, hybVars, scoreVars, utilVars, fctVars, faultVars, cmpVars>>

SpecEcmp == Init /\ [][NextEcmp]_vars

\* ------------------------------------------------------------------ claims

Abs(x) == IF x < 0 THEN -x ELSE x

OtherPath(p) == CHOOSE q \in Paths : q # p

C2_ConcurrentSameKey ==
    /\ [](Cardinality({t \in Threads : pc[t] \in {"cs", "u_cs"}}) <= 1)
    /\ [][\A k \in Keys :
            (/\ lastCall[k] # NoCall
             /\ \E t \in Threads : pc[t] = "cs" /\ pc'[t] = "returned"
                                    /\ frame[t].flow_key = k
             /\ Abs(lastCall'[k].time - lastCall[k].time) < FlowletTimeout)
            => lastCall'[k].path = lastCall[k].path]_vars

\* Two threads are inside get_flowlet_path for the same key at the same time
\* (neither has returned to its caller yet): one started the flowlet, the
\* other found its entry and returned the same path.
C2_Witness ==
    \E t, u \in Threads :
        /\ t # u
        /\ pc[t] = "returned" /\ pc[u] = "returned"
        /\ frame[t].flow_key = frame[u].flow_key
        /\ frame[u].kind \in {"new", "new_tie"}
        /\ frame[t].kind \in {"sticky", "sticky_later"}
        /\ frame[t].ret = frame[u].ret
        /\ lastCall[frame[t].flow_key].path = frame[t].ret

\* The entry of the flowlet table is missing or expired for the call of t.
NewFlowlet(t) ==
    \/ frame[t].flow_key \notin DOMAIN flowlet_table
    \/ frame[t].current_time - flowlet_table[frame[t].flow_key][1] >= FlowletTimeout

LeastLoaded(p, ps, loads) ==
    /\ p \in Range(ps)
    /\ \A q \in Range(ps) : PathLoadsGet(loads, p) <= PathLoadsGet(loads, q)

\* C3 as stated: a new flowlet gets a least loaded listed path, the smallest
\* path identifier among equally loaded ones, and (now, path) is recorded.
C3_SmallestIdAmongEquals ==
    [][\A t \in Threads :
          (pc[t] = "cs" /\ NewFlowlet(t) /\ frame[t].available_paths # <<>>)
          /\ pc'[t] # "cs"
          => LET ps == frame[t].available_paths
                 r == frame'[t].ret
             IN /\ pc'[t] = "returned"
                /\ LeastLoaded(r, ps, path_loads)
                /\ \A q \in Range(ps) :
                     PathLoadsGet(path_loads, q) = PathLoadsGet(path_loads, r) => r <= q
                /\ flowlet_table'[frame[t].flow_key] = <<frame[t].current_time, r>>]_vars

\* C3 amended: a new flowlet gets a least loaded listed path, the first
\* listed one among equally loaded ones, and (now, path) is recorded.
C3_FirstListedAmongEquals ==
    [][\A t \in Threads :
          (pc[t] = "cs" /\ NewFlowlet(t) /\ frame[t].available_paths # <<>>)
          /\ pc'[t] # "cs"
          => LET ps == frame[t].available_paths
                 r == frame'[t].ret
             IN /\ pc'[t] = "returned"
                /\ LeastLoaded(r, ps, path_loads)
                /\ \E i \in DOMAIN ps :
                     /\ ps[i] = r
                     /\ \A j \in DOMAIN ps :
                          PathLoadsGet(path_loads, ps[j]) = PathLoadsGet(path_loads, r) => i <= j
                /\ flowlet_table'[frame[t].flow_key] = <<frame[t].current_time, r>>]_vars

\* A new flowlet has just been given path 2 although path 1 was listed with
\* the same load, and its entry is in the table.
C3_Witness ==
    \E t \in Threads :
        /\ pc[t] = "returned"
        /\ frame[t].kind = "new_tie"
        /\ frame[t].ret = 2
        /\ flowlet_table[frame[t].flow_key] = <<lastCall[frame[t].flow_key].time, 2>>

\* C4: two classifiers with equal path loads that are given the same
\* available_paths choose the same path for a new flowlet, whatever the keys,
\* the timestamps and the other entries of their tables are.
C4_SameLoadsSameChoice ==
    twinOut.ret[1] = twinOut.ret[2]

\* Both classifiers have just started a new flowlet from equal, non-zero
\* loads, for different keys at different times and with different tables,
\* and both chose path 2.
C4_Witness ==
    /\ twinOut.ret = <<2, 2>>
    /\ twinOut.varied
    /\ twin[1].loads # EmptyDict

\* C5: once stop() has returned, and until the next start(), no sampler
\* thread of the monitor is alive and the sample sequence does not change,
\* after every sequence of start() and stop() calls.
C5_NoSamplingAfterStop ==
    /\ [](stops >= 1 => \A i \in SamplerIds : ~Alive(i))
    /\ [][(stops >= 1 /\ stops' >= 1) => samples' = samples]_vars

\* C6: a stop() that follows a stop() returns, and when it returns the sample
\* sequence and the monitoring flag are as they were when the first stop()
\* returned.
C6_SecondStopIdempotent ==
    /\ [](stops >= 1 /\ caller = "joining" => JoinReady)
    /\ [][(stops >= 1 /\ caller = "joining" /\ caller' = "idle")
            => (samples' = stopSamples /\ monitoring' = FALSE)]_vars

\* C7: while the monitor is running the sample sequence changes only by
\* getting one sample appended at its end.
C7_AppendOnlyWhileRunning ==
    [][(monitoring /\ monitoring')
         => \/ samples' = samples
            \/ /\ Len(samples') = Len(samples) + 1
               /\ SubSeq(samples', 1, Len(samples)) = samples]_vars

\* C8: what get_statistics returns is the statistics of one single prefix of
\* the sample sequence.
C8_SnapshotConsistency ==
    caller = "gs_done"
        => \E n \in 0..Len(samples) : stats = GetStatistics(SubSeq(samples, 1, n))

\* C9: in mode flowlet no congestion sampler thread ever exists; in the modes
\* congestion and hybrid every start() launches a sampler thread, and once
\* stop() has returned no congestion sampler thread is alive.
C9_ControllerLifecycle ==
    /\ [](mode = "flowlet" => \A i \in SamplerIds : cr_pc[i] = "unborn")
    /\ [][(mode \in {"congestion", "hybrid"} /\ ctl_starts' # ctl_starts)
            => /\ cr_monitor_thread' # NoSampler
               /\ cr_pc[cr_monitor_thread'] = "unborn"
               /\ cr_pc'[cr_monitor_thread'] = "check"]_vars
    /\ [](ctl_stops >= 1 => \A i \in SamplerIds : ~CrAlive(i))

\* C10: on a controller in mode hybrid a flowlet lookup inside the window
\* returns the path assigned before, and a lookup that starts a new flowlet
\* returns the path select_path chooses among the same available paths; on a
\* controller in mode congestion a selection returns what select_path chooses.
C10_HybridPolicy ==
    /\ (ctl_out.mode = "hybrid" /\ ctl_out.op = "get_flowlet_path")
         => /\ ctl_out.kind = "sticky" => ctl_out.ret = ctl_out.prev
            /\ ctl_out.kind = "new" => ctl_out.ret = ctl_out.best
    /\ (ctl_out.mode = "congestion" /\ ctl_out.op = "select_path")
         => ctl_out.ret = ctl_out.best

\* The score the claims speak of: the mean utilization of the links that
\* path_links_map lists for a path, no links for a path it does not list.
MeanOf(links) ==
    [num |-> SumSeq([i \in 1..Len(links) |->
                        IF links[i] \in DOMAIN link_stats
                        THEN link_stats[links[i]].util ELSE 0]),
     den |-> IF links = <<>> THEN 1 ELSE Len(links)]

SameScore(a, b) == a.num * b.den = b.num * a.den

CandidateScore(p) ==
    MeanOf(IF p \in DOMAIN score_out.path_links_map
           THEN score_out.path_links_map[p] ELSE <<>>)

\* C11: select_path returns a member of available_paths of minimal score,
\* every candidate listed before it has a strictly greater score, and a
\* candidate that path_links_map does not list is scored as having no links.
C11_SelectPathArgminFirstSeen ==
    (score_out.op = "select_path" /\ score_out.kind = "selected")
        => \E i \in 1..Len(score_out.available_paths) :
             /\ score_out.ret = score_out.available_paths[i]
             /\ \A j \in 1..Len(score_out.available_paths) :
                    ~ScoreLess(CandidateScore(score_out.available_paths[j]),
                               CandidateScore(score_out.ret))
             /\ \A j \in 1..(i - 1) :
                    ScoreLess(CandidateScore(score_out.ret),
                              CandidateScore(score_out.available_paths[j]))

\* select_path has chosen the first listed of two candidates of equal score,
\* the chosen one missing from path_links_map, while some link has a positive
\* reading.
C11_Witness ==
    /\ score_out.op = "select_path" /\ score_out.kind = "selected"
    /\ Len(score_out.available_paths) = 2
    /\ score_out.ret = score_out.available_paths[1]
    /\ score_out.ret \notin DOMAIN score_out.path_links_map
    /\ score_out.available_paths[2] \in DOMAIN score_out.path_links_map
    /\ SameScore(CandidateScore(score_out.available_paths[1]),
                 CandidateScore(score_out.available_paths[2]))
    /\ \E l \in DOMAIN link_stats : link_stats[l].util > 0

\* C12: get_path_score returns the mean over the links of the path of the
\* utilization recorded last for the link, 0 for a link without a record,
\* and 0 for a path without links.
C12_PathScoreIsMean ==
    score_out.op = "get_path_score"
        => /\ SameScore(score_out.score, MeanOf(score_out.path_links))
           /\ score_out.path_links = <<>> => score_out.score.num = 0

\* A path of two links, one with a positive reading and one without a record.
C12_Witness ==
    /\ score_out.op = "get_path_score"
    /\ Len(score_out.path_links) = 2
    /\ score_out.path_links[1] \in DOMAIN link_stats
    /\ link_stats[score_out.path_links[1]].util > 0
    /\ score_out.path_links[2] \notin DOMAIN link_stats
    /\ score_out.score.num > 0

\* C13: the step in which update_path_load writes adds load_delta to the load
\* that path_id has at that moment and changes neither the flowlet table nor
\* the load of another path, and no other step of any thread changes a load;
\* so the load of a path is always its initial load plus the deltas applied.
C13_UpdatePathLoadFrame ==
    [][\A t \in Threads :
         IF pc[t] = "u_cs" /\ pc'[t] = "idle"
         THEN /\ PathLoadsGet(path_loads', frame[t].path_id)
                    = PathLoadsGet(path_loads, frame[t].path_id) + frame[t].load_delta
              /\ \A p \in Paths \ {frame[t].path_id} :
                    /\ (p \in DOMAIN path_loads') = (p \in DOMAIN path_loads)
                    /\ PathLoadsGet(path_loads', p) = PathLoadsGet(path_loads, p)
              /\ flowlet_table' = flowlet_table
         ELSE (\A u \in Threads : ~(pc[u] = "u_cs" /\ pc'[u] = "idle"))
                  => path_loads' = path_loads]_vars

\* Both paths have had updates (path 2 one up and one down) next to lookups:
\* a flowlet is assigned and a thread has just returned from a lookup while
\* the other is inside update_path_load.
C13_Witness ==
    /\ 1 \in DOMAIN path_loads /\ path_loads[1] = 1
    /\ 2 \in DOMAIN path_loads /\ path_loads[2] = 0
    /\ "k1" \in DOMAIN flowlet_table
    /\ \E t, u \in Threads : pc[t] = "returned" /\ pc[u] = "u_cs"

\* The link is in sample i of self.samples.
InSample(l, i) ==
    /\ l[1] \in DOMAIN samples[i].switches
    /\ l[2] \in DOMAIN samples[i].switches[l[1]].ports

\* The pairs (i - 1, i) of consecutive samples that both hold the link, named
\* by i, and the tx-byte delta of such a pair.
PairsOf(l) == {i \in 2..Len(samples) : InSample(l, i - 1) /\ InSample(l, i)}

TxDelta(l, i) ==
    samples[i].switches[l[1]].ports[l[2]].tx_bytes
        - samples[i - 1].switches[l[1]].ports[l[2]].tx_bytes

\* C14: compute_link_utilization returns for every link one value for every
\* pair of consecutive samples that both hold the link, in sample order; a
\* link without such a pair has no entry, and fewer than two samples give an
\* empty result.
C14_OneValuePerCommonPair ==
    util_out.op = "compute_link_utilization"
        => /\ Len(samples) < 2 => util_out.link_util = EmptyDict
           /\ DOMAIN util_out.link_util
                  = {l \in UtilSwitches \X PortNums : PairsOf(l) # {}}
           /\ \A l \in DOMAIN util_out.link_util :
                  /\ Len(util_out.link_util[l]) = Cardinality(PairsOf(l))
                  /\ \A i \in PairsOf(l) :
                         util_out.link_util[l][Cardinality({j \in PairsOf(l) : j <= i})]
                             = UtilPct(TxDelta(l, i))

\* Three samples: s1:1 is in all of them with two different deltas, s2 is
\* missing from the middle one and so has no entry.
C14_Witness ==
    /\ util_out.op = "compute_link_utilization"
    /\ Len(samples) = 3
    /\ PairsOf(<<"s1", "1">>) = {2, 3}
    /\ TxDelta(<<"s1", "1">>, 2) # TxDelta(<<"s1", "1">>, 3)
    /\ InSample(<<"s2", "1">>, 1) /\ InSample(<<"s2", "1">>, 3)
    /\ "s2" \notin DOMAIN samples[2].switches
    /\ DOMAIN util_out.link_util = {<<"s1", "1">>}

\* C15: every utilization value is the tx-byte delta of its pair of samples,
\* in bits, divided by the time between the two samples and by the capacity
\* of the link, in percent (here in millionths of a percent, as UtilPct).
C15_UtilizationOfLinkCapacity ==
    util_out.op = "compute_link_utilization"
        => \A l \in DOMAIN util_out.link_util : \A i \in PairsOf(l) :
               util_out.link_util[l][Cardinality({j \in PairsOf(l) : j <= i})]
                   = ((TxDelta(l, i) * 8) * 100)
                         \div ((samples[i].timestamp - samples[i - 1].timestamp)
                                   * (TopoLinkBps \div 1000000))

\* C16: end_flow for a flow id that is not open raises nothing and changes
\* neither the open flows nor the closed records.
C16_EndFlowUnknownIsNoOp ==
    [][(fct_out'.op = "end_flow" /\ fct_out'.flow_id \notin DOMAIN flows)
          => /\ ~fct_out'.raised
             /\ flows' = flows
             /\ completed_flows' = completed_flows]_vars

\* end_flow has just been called for a flow that is not open, after a flow
\* was closed and while another flow is open.
C16_Witness ==
    /\ fct_out.op = "end_flow" /\ ~fct_out.hit
    /\ completed_flows # <<>>
    /\ flows # EmptyDict
    /\ fct_out.flow_id \notin DOMAIN flows

\* C17: an end_flow that finds its flow open takes that one record out of the
\* open flows and appends it, with its completion time, to the closed
\* records; no call removes or alters a closed record; and get_fct_stats
\* counts and summarises the closed records only: it is empty when no
\* end_flow has found its flow open, and else its count is the number of
\* such end_flow calls and its extremes are completion times of closed
\* records.
C17_StatsCoverClosedRecords ==
    /\ [][(fct_out'.op = "end_flow" /\ fct_out'.flow_id \in DOMAIN flows)
            => /\ DOMAIN flows' = DOMAIN flows \ {fct_out'.flow_id}
               /\ \A f \in DOMAIN flows' : flows'[f] = flows[f]
               /\ completed_flows'
                    = Append(completed_flows,
                             [start_time |-> flows[fct_out'.flow_id].start_time,
                              end_time |-> fct_now,
                              fct |-> fct_now - flows[fct_out'.flow_id].start_time])]_vars
    /\ [][/\ Len(completed_flows') >= Len(completed_flows)
          /\ SubSeq(completed_flows', 1, Len(completed_flows)) = completed_flows]_vars
    /\ [](fct_hits = Len(completed_flows))
    /\ [](fct_out.op = "get_fct_stats"
            => IF fct_hits = 0 THEN fct_out.stats.empty
               ELSE /\ ~fct_out.stats.empty
                    /\ fct_out.stats.count = fct_hits
                    /\ \E i \in 1..Len(completed_flows) :
                           fct_out.stats.max = completed_flows[i].fct
                    /\ \E i \in 1..Len(completed_flows) :
                           fct_out.stats.min = completed_flows[i].fct
                    /\ \A i \in 1..Len(completed_flows) :
                           /\ fct_out.stats.min <= completed_flows[i].fct
                           /\ completed_flows[i].fct <= fct_out.stats.max
                    /\ fct_out.stats.mean[1]
                           = SumSeq([i \in 1..Len(completed_flows) |->
                                        completed_flows[i].fct])
                    /\ fct_out.stats.mean[2] = Len(completed_flows))

\* Statistics taken over two closed records while a flow that started
\* earlier than both is still open.
C17_Witness ==
    /\ fct_out.op = "get_fct_stats"
    /\ fct_out.stats.count = 2
    /\ fct_out.stats.min < fct_out.stats.max
    /\ \E f \in DOMAIN flows :
           \A i \in 1..Len(completed_flows) :
               flows[f].start_time < completed_flows[i].start_time

\* The completion times of the closed records, and the element that stands
\* at index k (counted from 0) once they are sorted ascending.
ClosedFcts == [i \in 1..Len(completed_flows) |-> completed_flows[i].fct]

SortedAt(k) ==
    CHOOSE v \in Range(ClosedFcts) :
        /\ Cardinality({i \in 1..Len(ClosedFcts) : ClosedFcts[i] < v}) <= k
        /\ k < Cardinality({i \in 1..Len(ClosedFcts) : ClosedFcts[i] <= v})

\* C18: with n >= 1 closed records get_fct_stats returns as median, p95 and
\* p99 the elements at the indices n // 2, floor(n * 0.95) and
\* floor(n * 0.99) of the sorted completion times, indices that lie in
\* 0..n-1; for the times 1..10 these are 6, 10 and 10; with n = 0 it returns
\* the empty result.
C18_PercentileByIndex ==
    fct_out.op = "get_fct_stats"
        => LET n == Len(completed_flows)
           IN IF n = 0 THEN fct_out.stats.empty
              ELSE /\ ~fct_out.stats.empty
                   /\ {n \div 2, (n * 95) \div 100, (n * 99) \div 100} \subseteq 0..(n - 1)
                   /\ fct_out.stats.median = SortedAt(n \div 2)
                   /\ fct_out.stats.p95 = SortedAt((n * 95) \div 100)
                   /\ fct_out.stats.p99 = SortedAt((n * 99) \div 100)
                   /\ ClosedFcts = [i \in 1..10 |-> i]
                        => /\ fct_out.stats.median = 6
                           /\ fct_out.stats.p95 = 10
                           /\ fct_out.stats.p99 = 10

\* Statistics over more than a hundred closed records that were stored in
\* descending order of completion time: p95, p99 and the maximum differ.
C18_Witness ==
    /\ fct_out.op = "get_fct_stats"
    /\ fct_out.stats.count >= 101
    /\ completed_flows[1].fct > completed_flows[2].fct
    /\ fct_out.stats.median < fct_out.stats.p95
    /\ fct_out.stats.p95 < fct_out.stats.p99
    /\ fct_out.stats.p99 < fct_out.stats.max

\* C19: a sampling tick in which the reading of a switch or the parsing of a
\* port line fails appends exactly one sample, with an entry for every
\* switch and, for every switch that answered and every port whose line
\* parsed, the counters the switch reported; the sampler thread goes on to
\* its next loop test.
C19_FailureContainedInTick ==
    [][\A i \in SamplerIds :
         (sampler_pc[i] = "collect" /\ sampler_pc'[i] # "collect")
           => /\ sampler_pc'[i] = "check"
              /\ Len(samples') = Len(samples) + 1
              /\ SubSeq(samples', 1, Len(samples)) = samples
              /\ LET sample == samples'[Len(samples')]
                 IN /\ DOMAIN sample.switches = FaultSwitches
                    /\ \A sw \in FaultSwitches : \A port \in FaultPorts(sw) :
                           (last_raw'[sw].cmd_ok /\ last_raw'[sw].lines[port])
                             => /\ port \in DOMAIN sample.switches[sw].ports
                                /\ sample.switches[sw].ports[port]
                                     = TruePortStats(sw, port, clock)]_vars

\* After a tick in which the first port line of s1 did not parse, a later
\* tick in which s2 did not answer has been sampled: the second port of s1
\* is in both samples and s2 is in the first.
C19_Witness ==
    /\ Len(samples) >= 2
    /\ ~last_raw["s2"].cmd_ok
    /\ samples[Len(samples)].switches["s2"].ports = EmptyDict
    /\ DOMAIN samples[Len(samples)].switches["s1"].ports = {"1", "2"}
    /\ DOMAIN samples[Len(samples) - 1].switches["s1"].ports = {"2"}
    /\ DOMAIN samples[Len(samples) - 1].switches["s2"].ports = {"1"}
    /\ \E i \in SamplerIds : sampler_pc[i] = "check"

\* rx_drops + tx_drops of a link in sample i of self.samples.
DropsIn(l, i) ==
    samples[i].switches[l[1]].ports[l[2]].rx_drops
        + samples[i].switches[l[1]].ports[l[2]].tx_drops

\* C20: the packet drops get_statistics reports are, for every link of the
\* last sample, rx_drops + tx_drops of that sample, links with a total of 0
\* left out, whatever the earlier samples hold; without samples the map is
\* empty.
C20_DropsFromFinalSample ==
    util_out.op = "get_statistics"
        => IF samples = <<>> THEN util_out.stats.packet_drops = EmptyDict
           ELSE /\ DOMAIN util_out.stats.packet_drops
                       = {l \in UtilSwitches \X PortNums :
                             /\ InSample(l, Len(samples))
                             /\ DropsIn(l, Len(samples)) > 0}
                /\ \A l \in DOMAIN util_out.stats.packet_drops :
                       util_out.stats.packet_drops[l] = DropsIn(l, Len(samples))

\* Statistics over samples of which the first shows drops on s1:1 and the
\* last shows none there and two on s2:1: only s2:1 is reported.
C20_Witness ==
    /\ util_out.op = "get_statistics"
    /\ Len(samples) >= 2
    /\ InSample(<<"s1", "1">>, 1) /\ DropsIn(<<"s1", "1">>, 1) > 0
    /\ InSample(<<"s1", "1">>, Len(samples))
    /\ DropsIn(<<"s1", "1">>, Len(samples)) = 0
    /\ InSample(<<"s2", "1">>, Len(samples))
    /\ util_out.stats.packet_drops = (<<"s2", "1">> :> 2)

\* C26 as stated: every path get_flowlet_path returns is a member of the
\* available_paths passed to that call, also inside the flowlet window.
C26_ReturnedPathIsListed ==
    [][\A t \in Threads :
          (pc[t] = "cs" /\ pc'[t] = "returned")
          => frame'[t].ret \in Range(frame[t].available_paths)]_vars

\* C26 as amended: a call for a new flowlet (no entry, or an expired one)
\* returns a member of the available_paths passed to it; a call inside the
\* flowlet window returns the path stored in the key's entry, whether or not
\* that path is in the list passed to the call.
C26_NewFlowletPathIsListed ==
    [][\A t \in Threads :
          (pc[t] = "cs" /\ pc'[t] = "returned")
          => IF NewFlowlet(t)
             THEN /\ frame'[t].ret \in Range(frame[t].available_paths)
                  /\ frame'[t].listed
             ELSE /\ frame'[t].ret = flowlet_table[frame[t].flow_key][2]
                  /\ frame'[t].listed
                        = (frame'[t].ret \in Range(frame[t].available_paths))]_vars

\* A call inside the flowlet window has returned the stored path although
\* the list passed to it did not contain that path.
C26_Witness ==
    \E t \in Threads :
        /\ pc[t] = "returned"
        /\ frame[t].kind \in {"sticky", "sticky_later"}
        /\ ~frame[t].listed
        /\ flowlet_table[frame[t].flow_key][2] = frame[t].ret

\* C27: for every flow key the last_time stored in the flowlet table never
\* decreases, whatever the order of the timestamps of the calls, and an
\* entry, once made, is never removed.
C27_LastActiveMonotone ==
    [][\A k \in DOMAIN flowlet_table :
          /\ k \in DOMAIN flowlet_table'
          /\ flowlet_table'[k][1] >= flowlet_table[k][1]]_vars

\* C28: get_flowlet_path for a new flowlet with an empty available_paths
\* ends by raising, with the lock released and the flowlet table and the
\* path loads as they were; the lock is never held by a thread that is not
\* inside get_flowlet_path or update_path_load, so later calls can enter.
C28_EmptyPathsRaise ==
    /\ [](lock # NoThread => pc[lock] \in {"cs", "u_cs"})
    /\ [][\A t \in Threads :
            (/\ pc[t] = "cs" /\ pc'[t] # "cs"
             /\ NewFlowlet(t)
             /\ frame[t].available_paths = <<>>)
            => /\ pc'[t] = "raised"
               /\ lock' = NoThread
               /\ flowlet_table' = flowlet_table
               /\ path_loads' = path_loads
               /\ frame'[t].ret = NoPath]_vars

\* A call has raised on an empty list; the flowlet table has an entry for its
\* key and loads are recorded, and another thread has since taken the lock
\* for a call for the same key with a list that is not empty.
C28_Witness ==
    \E t, u \in Threads :
        /\ pc[t] = "raised"
        /\ frame[t].flow_key \in DOMAIN flowlet_table
        /\ path_loads # EmptyDict
        /\ pc[u] = "cs" /\ lock = u
        /\ frame[u].flow_key = frame[t].flow_key
        /\ frame[u].available_paths # <<>>

\* C25: in every reachable state at most one sampler thread of the
\* NetworkMonitor is alive and at most one sampler thread of the
\* CongestionAwareRouter is alive.
C25_AtMostOneSampler ==
    /\ Cardinality({i \in SamplerIds : Alive(i)}) <= 1
    /\ Cardinality({i \in SamplerIds : CrAlive(i)}) <= 1

\* C30: while only the congestion sampler writes link_stats, every recorded
\* utilization is 0, every get_path_score is 0, and select_path returns the
\* first element of available_paths.
C30_SamplerRecordsZero ==
    /\ \A l \in DOMAIN link_stats : link_stats[l].util = 0
    /\ score_out.op = "get_path_score" => score_out.score.num = 0
    /\ (score_out.op = "select_path" /\ score_out.kind = "selected")
          => score_out.ret = score_out.available_paths[1]

\* The sampler has filled link_stats on two passes and stop() has returned;
\* select_path, asked for the paths in the order 2, 1 with a link list for
\* each of them, has answered 2.
C30_Witness ==
    /\ cr_probes >= 2
    /\ ctl_stops >= 1
    /\ DOMAIN link_stats = CtlLinks
    /\ score_out.op = "select_path"
    /\ score_out.available_paths = <<2, 1>>
    /\ DOMAIN score_out.path_links_map = Paths
    /\ \A p \in Paths : score_out.path_links_map[p] # <<>>
    /\ score_out.ret = 2

\* C29: stop() terminates.  Whenever the caller of NetworkMonitor.stop() or
\* of stop_monitoring() is waiting in join(), the flag being cleared, it
\* eventually returns, given that every sampler that can step does.
C29_StopTerminates ==
    /\ (caller = "joining") ~> (caller = "idle")
    /\ (ctl_caller = "joining") ~> (ctl_caller = "idle")

\* A stop() has returned after start() had been called twice: the thread it
\* joined, the second one, is dead and a sample had been appended.
C29_Witness ==
    /\ caller = "idle" /\ stops >= 1
    /\ monitor_thread = 2 /\ sampler_pc[2] = "dead"
    /\ samples # <<>>

IsZero(x) == x.num = 0 /\ x.den > 0

\* C21: in what compare_metrics returns, no percentage comes from a division
\* by zero and a metric whose ECMP value is 0 has the percentage 0, whatever
\* the adaptive value; in both summaries the balance score is 0 when the
\* mean utilizations sum to 0 and avg_drops_per_link is 0 when no link has
\* drops.
C21_ZeroDivisionGuard ==
    cmp_out.op = "compare_metrics" =>
        /\ \A m \in DOMAIN cmp_out.comparison :
              /\ cmp_out.comparison[m].pct.den > 0
              /\ cmp_out.comparison[m].ecmp.num = 0 => IsZero(cmp_out.comparison[m].pct)
        /\ \A side \in {"ecmp", "adaptive"} :
              LET data == IF side = "ecmp" THEN ecmp_analyzer ELSE adaptive_analyzer
                  summary == IF side = "ecmp" THEN cmp_out.ecmp_summary
                             ELSE cmp_out.adaptive_summary
              IN /\ summary.utilization.balance_score.den > 0
                 /\ (summary.utilization.present /\ SumSeq(data.link_utilization) = 0)
                       => IsZero(summary.utilization.balance_score)
                 /\ summary.drops.avg_drops_per_link.den > 0
                 /\ (summary.drops.present /\ data.packet_drops = <<>>)
                       => IsZero(summary.drops.avg_drops_per_link)

\* The ECMP run has no drops, a mean throughput of 0, a p99 completion time
\* of 0 and four links of utilization 0, the adaptive run has drops, a
\* positive throughput and completion time and unequal links; all four
\* metrics are compared.
C21_Witness ==
    /\ cmp_out.op = "compare_metrics"
    /\ DOMAIN cmp_out.comparison = Metrics
    /\ \A m \in Metrics : /\ cmp_out.comparison[m].ecmp.num = 0
                           /\ cmp_out.comparison[m].adaptive.num > 0
                           /\ IsZero(cmp_out.comparison[m].pct)
    /\ ecmp_analyzer.link_utilization = <<0, 0, 0, 0>>
    /\ ecmp_analyzer.packet_drops = <<>>
    /\ adaptive_analyzer.packet_drops # <<>>

\* pct is (to - from) / base * 100.
IsPctOfChange(pct, from, to, base) ==
    pct.num * base.num * from.den * to.den
        = 100 * pct.den * base.den * (to.num * from.den - from.num * to.den)

\* C22 as stated: every percentage of the comparison is
\* (adaptive - ecmp) / ecmp * 100, and 0 when the ECMP value is 0.
C22_UniformPercentageRule ==
    cmp_out.op = "compare_metrics" =>
        \A m \in DOMAIN cmp_out.comparison :
            LET c == cmp_out.comparison[m]
            IN IF c.ecmp.num = 0 THEN IsZero(c.pct)
               ELSE c.pct.den > 0 /\ IsPctOfChange(c.pct, c.ecmp, c.adaptive, c.ecmp)

\* C22 as amended: the throughput and balance improvements are
\* (adaptive - ecmp) / ecmp * 100, the drop reduction and the p99 improvement
\* are (ecmp - adaptive) / ecmp * 100, and each is 0 when the ECMP value is
\* not positive.
C22_PercentageRules ==
    cmp_out.op = "compare_metrics" =>
        \A m \in DOMAIN cmp_out.comparison :
            LET c == cmp_out.comparison[m]
            IN IF c.ecmp.num <= 0 THEN IsZero(c.pct)
               ELSE /\ c.pct.den > 0
                    /\ IF m \in {"throughput", "balance"}
                       THEN IsPctOfChange(c.pct, c.ecmp, c.adaptive, c.ecmp)
                       ELSE IsPctOfChange(c.pct, c.adaptive, c.ecmp, c.ecmp)

\* All four metrics are compared with positive ECMP values that differ from
\* the adaptive ones: the throughput has fallen and so have the drops and
\* the p99 completion time, so the first percentage is negative and the last
\* two are positive.
C22_Witness ==
    /\ cmp_out.op = "compare_metrics"
    /\ DOMAIN cmp_out.comparison = Metrics
    /\ \A m \in Metrics : cmp_out.comparison[m].ecmp.num > 0
    /\ cmp_out.comparison["throughput"].pct.num < 0
    /\ cmp_out.comparison["drops"].pct.num > 0
    /\ cmp_out.comparison["tail_latency"].pct.num > 0
    /\ cmp_out.comparison["balance"].pct.num # 0


\* The rules a built table holds for a switch; a switch without a key has
\* none.
RulesOf(sw) == IF sw \in DOMAIN routing_table THEN routing_table[sw] ELSE <<>>

\* The rules of a switch for one destination address.
RulesFor(sw, dst_ip) == {i \in DOMAIN RulesOf(sw) : RulesOf(sw)[i].dst_ip = dst_ip}

\* The node at the far end of a port of a switch of the network.
PeerOf(net, sw, port) ==
    LET intfs == IntfList(net, sw)
    IN IF \E i \in DOMAIN intfs : intfs[i].port = port
       THEN intfs[CHOOSE i \in DOMAIN intfs : intfs[i].port = port].peer
       ELSE NoNode

FullMeshPlanned ==
    /\ ecmp_out = [op |-> "build_routing_table", kind |-> "returned"]
    /\ topology_info = ecmp_net

\* C23: ECMP completeness.  When build_routing_table has returned for the
\* full-mesh network of S spines, L leaves and H hosts per leaf, every leaf
\* has exactly one entry per host; the entry for a host of its own has
\* exactly 1 port; the entry for a host of another leaf has exactly S ports,
\* pairwise distinct, one facing each spine; and every spine has, for each
\* host, exactly one entry whose only port faces that host's leaf.
C23_EcmpCompleteness ==
    FullMeshPlanned =>
        LET S == ecmp_net.num_spines
            L == ecmp_net.num_leaves
            H == ecmp_net.hosts_per_leaf
        IN /\ \A l \in 1..L : \A dl \in 1..L : \A h \in 1..H :
                LET leaf == Node("leaf", l)
                    found == RulesFor(leaf, HostIp(dl, h))
                IN /\ Cardinality(found) = 1
                   /\ \A i \in found :
                        LET ports == RulesOf(leaf)[i].out_ports
                        IN IF dl = l
                           THEN Len(ports) = 1
                           ELSE /\ Len(ports) = S
                                /\ Cardinality(Range(ports)) = S
                                /\ \A s \in 1..S :
                                     \E p \in Range(ports) :
                                         PeerOf(ecmp_net, leaf, p) = Node("spine", s)
           /\ \A s \in 1..S : \A dl \in 1..L : \A h \in 1..H :
                LET spine == Node("spine", s)
                    found == RulesFor(spine, HostIp(dl, h))
                IN /\ Cardinality(found) = 1
                   /\ \A i \in found :
                        LET ports == RulesOf(spine)[i].out_ports
                        IN /\ Len(ports) = 1
                           /\ PeerOf(ecmp_net, spine, ports[1]) = Node("leaf", dl)

\* A table was built for a network of two spines, two leaves and two hosts per
\* leaf: leaf 1 spreads the traffic for a host of leaf 2 over two ports, and
\* spine 2 sends it to its port 2.
C23_Witness ==
    /\ FullMeshPlanned
    /\ ecmp_net = [num_spines |-> 2, num_leaves |-> 2, hosts_per_leaf |-> 2]
    /\ \E i \in DOMAIN RulesOf(Node("leaf", 1)) :
        /\ RulesOf(Node("leaf", 1))[i].dst_ip = HostIp(2, 2)
        /\ Len(RulesOf(Node("leaf", 1))[i].out_ports) = 2
    /\ \E i \in DOMAIN RulesOf(Node("spine", 2)) :
        RulesOf(Node("spine", 2))[i] = Rule(HostIp(2, 1), <<2>>)

\* C24: no forwarding entry is ever empty.  A table that build_routing_table
\* returned holds no entry with an empty port list (a switch with no
\* eligible port makes the call fail instead), and install_ecmp_rules sends
\* no select group without a bucket.
C24_NoEmptyEntry ==
    /\ \A sw \in DOMAIN routing_table : \A i \in DOMAIN routing_table[sw] :
          routing_table[sw][i].out_ports # <<>>
    /\ \A sw \in DOMAIN installed : \A i \in DOMAIN installed[sw] :
          installed[sw][i].cmd = "add-group" => installed[sw][i].ports # <<>>

====
